---- MODULE Spec2Model ----
(***************************************************************************)
(* Verification model of the elara-core network layer and Layer 1 bridge:  *)
(* the witness store, the per-peer rate limiter, peer discovery, the       *)
(* network server's mutating endpoints and the L1 bridge.                  *)
(*                                                                         *)
(* Each component has its own specification (SpecWitness, SpecRate, ...)   *)
(* over the shared variable tuple; a component's actions leave the other   *)
(* components' variables unchanged.                                        *)
(***************************************************************************)
EXTENDS Integers, Sequences, FiniteSets, TLC

(* ------------------------------------------------------------------ *)
(* Bounds of the model                                                  *)
(* ------------------------------------------------------------------ *)
NumRecords == 2
NumWitnesses == 2
NumPeers == 2
MaxTime == 3
MaxAdds == 2
MaxPosts == 3
MaxCalls == 3
MaxRequestsBound == 2
MaxWindow == 2
NumIdentities == 2
MaxTicks == 2
TickSeconds == 120
MaxHeartbeats == 2
MaxDiscOps == 3
MaxEvents == 3
MaxClientCalls == 2
NumNodes == 3
MaxNetCalls == 3
MaxEntries == 2
MaxCount == 8
MaxRestarts == 2

RecordIds == 1..NumRecords
WitnessIds == 1..NumWitnesses
\* (witness_signature, timestamp) of the attestations offered to the store
Payloads == {<<"sigA", 100>>, <<"sigB", 200>>}
PeerIps == 1..NumPeers

VARIABLES
    \* WitnessManager (network/witness.py)
    wmDisk,        \* TRUE iff a db_path was given to the constructor
    conn,          \* self._conn is not None
    memory,        \* self._memory : record_id -> list of attestations
    rows,          \* the attestations table as seen through self._conn
    added,         \* history: (record_id, witness) pairs passed to add_attestation
    persistFailed, \* history: some add_attestation hit sqlite3.Error
    wmCalls,       \* history: number of add_attestation calls
    committed,     \* the rows in the database file at db_path
    okAdds,        \* history: pairs whose INSERT and commit both succeeded
    reopened,      \* history: a WitnessManager was opened again on the path
    wmRet,         \* the attestation passed to the last add_attestation
    \* An in-memory and a disk-backed WitnessManager given the same calls
    eqMem,         \* self._memory of the in-memory manager
    eqRows,        \* the table as the disk-backed manager's connection sees it
    eqOffered,     \* history: the attestations passed to add_attestation
    eqLost,        \* history: some INSERT of the disk-backed one raised
    \* PeerRateLimiter (network/ratelimit.py)
    now,           \* time.time()
    maxRequests,   \* self._max_requests
    window,        \* self._window
    requests,      \* self._requests : peer_ip -> list of timestamps
    calls,         \* history: allow calls per peer since its last reset
    rlRet,         \* the last call on the limiter and what it returned
    \* NetworkServer (network/server.py) and its LocalDAG
    dag,           \* the records of the server's LocalDAG
    srvReq,        \* the last request handled: endpoint, peer and body
    srvResp,       \* the response to it
    srvPosts,      \* history: number of requests handled
    srvAccepted,   \* history: {accepted: true} answers per record id
    \* PeerDiscovery (network/discovery.py)
    peers,         \* self._peers, in insertion order
    hbRet,         \* the last heartbeat: per pinged peer, the ping's outcome
                   \* and the state the peer had before it
    hbCount,       \* history: number of heartbeat_once calls
    consec,        \* history: consecutive failed pings of each peer object
    discOps,       \* history: number of discovery operations performed
    running,       \* self._running
    lan,           \* which of self._zeroconf, self._service_info and
                   \* self._browser are set
    discRet,       \* the last operation, the events it emitted, and the
                   \* LAN calls of it that raised
    \* L1Bridge (core/layer1_bridge.py) and the LocalDAG it opens
    brDag,              \* self._dag: the stored records, in insertion order
    lastValidatedHash,  \* self._last_validated_hash
    subscribed,         \* event types _handle_event is registered for
    emitted,            \* bus.emit(ARTIFACT_VALIDATED, ...) calls made
    produced,           \* history: records the bridge inserted, in order
    brInitTips,         \* history: dag.tips() as read by __init__
    brCreated,          \* history: records ValidationRecord.create returned
    brEvents,           \* history: number of events handled
    brRet,              \* the last handled event and how handling ended
    brThreads,          \* per thread inside _handle_event: the statement
                        \* it is at, and its local parents and record
    brRestarts,         \* history: how many records the DAG held each
                        \* time an L1Bridge was constructed over it again
    \* NetworkClient (network/client.py)
    clSession,     \* self._session is not None
    clCalls,       \* history: number of calls made on the client
    clRet,         \* the last call: its inputs and what the caller got
    \* A testnet of several nodes, each with its own NetworkServer
    netDisk,       \* the nodes' WitnessManagers are disk-backed
    netDag,        \* per node: the records of its LocalDAG, in order
    netStore,      \* per node: the attestations its WitnessManager returns
    netResults,    \* per node: the last witness answer the client got
    netReq,        \* the last request: node, endpoint, body and answer
    netCalls,      \* history: number of requests sent to the nodes
    \* Bootstrap (network/bootstrap.py)
    bsRet,         \* the last call: its inputs, what it returned or that
                   \* it raised, and whether the remote list was fetched
    \* TrustScore (network/trust.py)
    trRet,         \* the last two calls of compute: argument and result
    twAtts,        \* the attestation list of the last compute_weighted call
    twRet,         \* that call's score, and the score of the list without
                   \* the attestation added last
    lvRet,         \* the last two calls of level: score and result
    \* Intention hook (hooks/intention-hook.py)
    hkFile,        \* PATTERNS_FILE
    hkDetections,  \* history: number of _log_frustration calls
    hkFaults,      \* history: calls in which read_text or write_text raised
    hkLogged,      \* history: the entries whose write_text completed
    hkRet          \* the last run of main(): stdin, exit status, output

wmVars == <<wmDisk, conn, memory, rows, added, persistFailed, wmCalls,
           committed, okAdds, reopened, wmRet>>
rlVars == <<now, maxRequests, window, requests, calls, rlRet>>
srvVars == <<dag, srvReq, srvResp, srvPosts, srvAccepted>>
discVars == <<peers, hbRet, hbCount, consec, discOps, running, lan, discRet>>
brVars == <<brDag, lastValidatedHash, subscribed, emitted, produced,
           brInitTips, brCreated, brEvents, brRet, brThreads, brRestarts>>
clVars == <<clSession, clCalls, clRet>>
netVars == <<netDisk, netDag, netStore, netResults, netReq, netCalls>>
bsVars == <<bsRet>>
trVars == <<trRet, twAtts, twRet, lvRet>>
eqVars == <<eqMem, eqRows, eqOffered, eqLost>>
hkVars == <<hkFile, hkDetections, hkFaults, hkLogged, hkRet>>
auxVars == <<clVars, netVars, bsVars, trVars, hkVars, eqVars>>
vars == <<wmVars, rlVars, srvVars, discVars, brVars, auxVars>>

(* ------------------------------------------------------------------ *)
(* WitnessManager                                                       *)
(* ------------------------------------------------------------------ *)
WitnessAttestation(rid, wid, sig, ts) ==
    [record_id |-> rid, witness_identity_hash |-> wid,
     witness_signature |-> sig, timestamp |-> ts]

Attestations ==
    {WitnessAttestation(r, w, p[1], p[2]) :
        r \in RecordIds, w \in WitnessIds, p \in Payloads}

\* no attestation
NoAttestation == WitnessAttestation(0, 0, "", 0)

\* dict.get(key, []) on the in-memory map
MemGet(mem, rid) == IF rid \in DOMAIN mem THEN mem[rid] ELSE <<>>

SeqRange(s) == {s[i] : i \in 1..Len(s)}

\* The in-memory branch without its duplicate check.
MemAddNoDedup(mem, att) ==
    [r \in DOMAIN mem \cup {att.record_id} |->
        IF r = att.record_id THEN Append(MemGet(mem, r), att) ELSE mem[r]]

\* add_attestation, in-memory branch
MemAdd(mem, att) ==
    LET rid == att.record_id
        withKey == [r \in DOMAIN mem \cup {rid} |-> MemGet(mem, r)]
        existing == {a.witness_identity_hash : a \in SeqRange(withKey[rid])}
    IN IF att.witness_identity_hash \in existing
       THEN withKey
       ELSE [withKey EXCEPT ![rid] = Append(@, att)]

\* INSERT OR REPLACE: a row with the same key gives way to the new one.
InsertOrReplace(tbl, att) ==
    {a \in tbl : \/ a.record_id # att.record_id
                  \/ a.witness_identity_hash # att.witness_identity_hash}
        \cup {att}

\* A primary key that does not reject a second row for a pair.
InsertAlways(tbl, att) == tbl \cup {att}

\* INSERT OR IGNORE under PRIMARY KEY (record_id, witness_identity)
InsertOrIgnore(tbl, att) ==
    IF \E a \in tbl : /\ a.record_id = att.record_id
                      /\ a.witness_identity_hash = att.witness_identity_hash
    THEN tbl
    ELSE tbl \cup {att}

\* float("nan") as a timestamp: sqlite3 binds it as NULL
NanTimestamp == 0 - 1

\* The INSERT statement: a NULL timestamp violates NOT NULL, and OR IGNORE
\* then skips the row without an error
DiskInsert(tbl, att) ==
    IF att.timestamp = NanTimestamp THEN tbl ELSE InsertOrIgnore(tbl, att)

\* add_attestation, disk branch: the table as this connection sees it
\* after the guarded INSERT and commit
DiskAdd(tbl, att, outcome) ==
    IF outcome = "execute_error" THEN tbl ELSE DiskInsert(tbl, att)

\* The readers, for a manager with a connection (disk) or without
GetAttestations(disk, tbl, mem, rid) ==
    IF disk THEN {a \in tbl : a.record_id = rid}
    ELSE SeqRange(MemGet(mem, rid))

WitnessCount(disk, tbl, mem, rid) ==
    IF disk THEN Cardinality({a \in tbl : a.record_id = rid})
    ELSE Len(MemGet(mem, rid))

\* get_attestations: the stored attestations of a record, as a set
get_attestations(rid) == GetAttestations(conn, rows, memory, rid)

\* witness_count: SELECT COUNT(*) / len(list)
witness_count(rid) == WitnessCount(conn, rows, memory, rid)

RECURSIVE SumLen(_, _)
SumLen(mem, keys) ==
    IF keys = {} THEN 0
    ELSE LET k == CHOOSE x \in keys : TRUE
         IN Len(mem[k]) + SumLen(mem, keys \ {k})

Stats(disk, tbl, mem) ==
    IF disk
    THEN [records_witnessed |-> Cardinality({a.record_id : a \in tbl}),
          total_attestations |-> Cardinality(tbl)]
    ELSE [records_witnessed |-> Cardinality(DOMAIN mem),
          total_attestations |-> SumLen(mem, DOMAIN mem)]

\* stats
wm_stats == Stats(conn, rows, memory)

\* The outcomes of the guarded INSERT + commit: it succeeds, execute raises
\* sqlite3.Error (no row), or commit raises it (the row stays in the
\* connection's open transaction and its later reads see it).
PersistOutcomes == {"ok", "execute_error", "commit_error"}

WMInit ==
    /\ wmDisk \in BOOLEAN
    /\ conn = wmDisk
    /\ memory = << >>
    /\ rows = {}
    /\ added = {}
    /\ persistFailed = FALSE
    /\ wmCalls = 0
    /\ committed = {}
    /\ okAdds = {}
    /\ reopened = FALSE
    /\ wmRet = NoAttestation

add_attestation(att, outcome) ==
    /\ wmCalls < MaxAdds
    /\ wmCalls' = wmCalls + 1
    /\ IF conn
       THEN /\ rows' = DiskAdd(rows, att, outcome)
            /\ persistFailed' = (persistFailed \/ outcome # "ok")
            /\ committed' = IF outcome = "ok" THEN rows' ELSE committed
            /\ okAdds' = IF outcome = "ok"
                         THEN okAdds \cup
                                {<<att.record_id, att.witness_identity_hash>>}
                         ELSE okAdds
            /\ UNCHANGED memory
       ELSE /\ memory' = MemAdd(memory, att)
            /\ UNCHANGED <<rows, persistFailed, committed, okAdds>>
    /\ added' = added \cup {<<att.record_id, att.witness_identity_hash>>}
    /\ wmRet' = att
    /\ UNCHANGED <<wmDisk, conn, reopened>>

\* The attestations offered to two managers: those above, and ones whose
\* timestamp is NaN
EqAttestations ==
    Attestations \cup
        {WitnessAttestation(r, w, "sigA", NanTimestamp) :
            r \in RecordIds, w \in WitnessIds}

\* One add_attestation call made on an in-memory manager and on a
\* disk-backed one, with the same attestation
eq_add(att, outcome) ==
    /\ Len(eqOffered) < MaxAdds
    /\ eqOffered' = Append(eqOffered, att)
    /\ eqMem' = MemAdd(eqMem, att)
    /\ eqRows' = DiskAdd(eqRows, att, outcome)
    /\ eqLost' = (eqLost \/ outcome = "execute_error")

EqInit ==
    /\ eqMem = << >>
    /\ eqRows = {}
    /\ eqOffered = <<>>
    /\ eqLost = FALSE

wm_close ==
    /\ conn
    /\ conn' = FALSE
    /\ UNCHANGED <<wmDisk, memory, rows, added, persistFailed, wmCalls,
                   committed, okAdds, reopened, wmRet>>

\* Opening that starts from an empty table, as on a fresh path.
wm_reopenEmpty ==
    /\ wmDisk /\ ~ conn
    /\ reopened' = TRUE
    /\ conn' = TRUE
    /\ rows' = {}
    /\ memory' = << >>
    /\ UNCHANGED <<wmDisk, added, persistFailed, wmCalls, committed,
                   okAdds, wmRet>>

\* WitnessManager(db_path) on the path of a manager that was closed: a
\* new object, whose connection reads what the file holds; rows of a
\* transaction that was never committed are not in it
wm_reopen ==
    /\ wmDisk /\ ~ conn
    /\ reopened' = TRUE
    /\ conn' = TRUE
    /\ rows' = committed
    /\ memory' = << >>
    /\ UNCHANGED <<wmDisk, added, persistFailed, wmCalls, committed,
                   okAdds, wmRet>>

(* ------------------------------------------------------------------ *)
(* PeerRateLimiter                                                      *)
(* ------------------------------------------------------------------ *)
\* Pruning that keeps a timestamp exactly window_seconds old.
PruneInclusive(timestamps, cutoff) ==
    SelectSeq(timestamps, LAMBDA t : t >= cutoff)

\* [t for t in timestamps if t > cutoff]
Prune(timestamps, cutoff) == SelectSeq(timestamps, LAMBDA t : t > cutoff)

\* The limit test off by one: max_requests + 1 requests fit in a window.
OverLimitOffByOne(pruned) == Len(pruned) > maxRequests

\* len(self._requests[peer_ip]) >= self._max_requests
OverLimit(pruned) == Len(pruned) >= maxRequests

\* An allow() that records the time of a denied call as well.
AllowListAlways(reqs, peer, t) ==
    Append(Prune(reqs[peer], t - window), t)

\* allow(): the peer's list after the call
AllowList(reqs, peer, t) ==
    LET pruned == Prune(reqs[peer], t - window)
    IN IF OverLimit(pruned) THEN pruned ELSE Append(pruned, t)

\* A limit test that counts the requests of every peer.
AllowResultGlobal(reqs, peer, t) ==
    LET RECURSIVE Total(_)
        Total(ps) == IF ps = {} THEN 0
                     ELSE LET p == CHOOSE q \in ps : TRUE
                          IN Len(Prune(reqs[p], t - window)) + Total(ps \ {p})
    IN Total(DOMAIN reqs) < maxRequests

\* allow(): the value returned
AllowResult(reqs, peer, t) ==
    ~ OverLimit(Prune(reqs[peer], t - window))

RLInit ==
    /\ now = 0
    /\ maxRequests \in -1..MaxRequestsBound
    /\ window \in 0..MaxWindow
    /\ requests = [p \in PeerIps |-> <<>>]
    /\ calls = <<>>
    /\ rlRet = [op |-> "none", peer |-> 0, result |-> FALSE, at |-> 0,
                cleared |-> 0]

allow(peer) ==
    /\ Len(calls) < MaxCalls
    /\ requests' = [requests EXCEPT ![peer] = AllowList(requests, peer, now)]
    /\ rlRet' = [op |-> "allow", peer |-> peer,
                 result |-> AllowResult(requests, peer, now), at |-> now,
                 cleared |-> 0]
    /\ calls' = Append(calls, [peer |-> peer, at |-> now,
                               ok |-> AllowResult(requests, peer, now)])
    /\ UNCHANGED <<now, maxRequests, window>>

\* the number of timestamps held for the peers ps
RECURSIVE Held(_, _)
Held(reqs, ps) ==
    IF ps = {} THEN 0
    ELSE LET p == CHOOSE q \in ps : TRUE
         IN Len(reqs[p]) + Held(reqs, ps \ {p})

\* A reset of one peer that clears every peer.
reset_everyone(peer) ==
    /\ requests' = [p \in PeerIps |-> <<>>]
    /\ rlRet' = [op |-> "reset", peer |-> peer, result |-> FALSE, at |-> now,
                 cleared |-> Held(requests, PeerIps)]
    /\ calls' = <<>>
    /\ UNCHANGED <<now, maxRequests, window>>

\* reset(peer_ip) with a non-empty peer_ip; cleared is the number of
\* timestamps the call removed
reset(peer) ==
    /\ requests' = [requests EXCEPT ![peer] = <<>>]
    /\ rlRet' = [op |-> "reset", peer |-> peer, result |-> FALSE, at |-> now,
                 cleared |-> Held(requests, {peer})]
    /\ calls' = SelectSeq(calls, LAMBDA c : c.peer # peer)
    /\ UNCHANGED <<now, maxRequests, window>>

\* reset() with the default peer_ip = ""
reset_all ==
    /\ requests' = [p \in PeerIps |-> <<>>]
    /\ rlRet' = [op |-> "reset", peer |-> 0, result |-> FALSE, at |-> now,
                 cleared |-> Held(requests, PeerIps)]
    /\ calls' = <<>>
    /\ UNCHANGED <<now, maxRequests, window>>

\* time.time() advances between calls
Tick ==
    /\ now < MaxTime
    /\ now' = now + 1
    /\ UNCHANGED <<maxRequests, window, requests, calls, rlRet>>

(* ------------------------------------------------------------------ *)
(* LocalDAG and the NetworkServer's mutating endpoints                  *)
(* ------------------------------------------------------------------ *)
\* identity_hash of the server's own identity
ServerIdentity == 1

\* A ValidationRecord as the DAG keeps it
ValidationRecord(id, parents) == [id |-> id, parents |-> parents]

\* The DAG is the sequence of its stored rows, in insertion order.
DagIds(d) == {d[i].id : i \in 1..Len(d)}

\* An insert that stores a second row for a record id already present.
DagInsertAgain(d, rec) == Append(d, rec)

\* LocalDAG.insert: content-addressed, a record id is stored once
DagInsert(d, rec) == IF rec.id \in DagIds(d) THEN d ELSE Append(d, rec)

\* stats()["total_records"]
total_records(d) == Len(d)

\* Request bodies: nothing, bytes that are no record, the wire bytes of a
\* record whose creator signature does not verify, or those of a record
\* whose signatures verify (sig_ok).
Bodies ==
    {[kind |-> "empty", id |-> 0, sig_ok |-> FALSE],
     [kind |-> "garbage", id |-> 0, sig_ok |-> FALSE],
     [kind |-> "record", id |-> 1, sig_ok |-> FALSE]}
    \cup {[kind |-> "record", id |-> r, sig_ok |-> TRUE] : r \in RecordIds}

NoResp == [status |-> 0, error |-> "", accepted |-> FALSE, record_id |-> 0,
           witness |-> 0, signature |-> ""]

ErrorResp(status, msg) == [NoResp EXCEPT !.status = status, !.error = msg]

\* A handler that accepts a record without verifying its signatures.
RecordsRespUnverified(body) ==
    IF body.kind = "empty" THEN ErrorResp(400, "empty body")
    ELSE IF body.kind = "garbage" THEN ErrorResp(500, "parse error")
    ELSE [NoResp EXCEPT !.status = 200, !.accepted = TRUE,
                        !.record_id = body.id]

\* The handler's answer once the request was admitted
RecordsResp(body) ==
    IF body.kind = "empty" THEN ErrorResp(400, "empty body")
    ELSE IF body.kind = "garbage" THEN ErrorResp(500, "parse error")
    ELSE IF ~ body.sig_ok THEN ErrorResp(500, "signature verification failed")
    ELSE [NoResp EXCEPT !.status = 200, !.accepted = TRUE,
                        !.record_id = body.id]

\* An answer that names the record as its own witness.
WitnessRespOfRecord(identity, body, sig) ==
    IF body.kind = "empty" THEN ErrorResp(400, "empty body")
    ELSE IF body.kind = "garbage" THEN ErrorResp(500, "parse error")
    ELSE IF ~ body.sig_ok THEN ErrorResp(500, "signature verification failed")
    ELSE [NoResp EXCEPT !.status = 200, !.witness = body.id,
                        !.record_id = body.id, !.signature = sig]

\* A handler that hands an empty body to the parser.
WitnessRespOfUnchecked(identity, body, sig) ==
    IF body.kind \in {"empty", "garbage"} THEN ErrorResp(500, "parse error")
    ELSE IF ~ body.sig_ok THEN ErrorResp(500, "signature verification failed")
    ELSE [NoResp EXCEPT !.status = 200, !.witness = identity,
                        !.record_id = body.id, !.signature = sig]

\* The /witness answer of the server whose identity_hash is identity
WitnessRespOf(identity, body, sig) ==
    IF body.kind = "empty" THEN ErrorResp(400, "empty body")
    ELSE IF body.kind = "garbage" THEN ErrorResp(500, "parse error")
    ELSE IF ~ body.sig_ok THEN ErrorResp(500, "signature verification failed")
    ELSE [NoResp EXCEPT !.status = 200, !.witness = identity,
                        !.record_id = body.id, !.signature = sig]

WitnessResp(body, sig) == WitnessRespOf(ServerIdentity, body, sig)

\* The server's counter-signature and the time it signs at, the clock
\* standing still within the window observed
ServerPayload == <<"sigA", 100>>

\* rate_limiter.allow(peer_ip) as the handlers call it
Admit(peer) ==
    /\ requests' = [requests EXCEPT ![peer] = AllowList(requests, peer, now)]
    /\ UNCHANGED <<now, maxRequests, window, calls, rlRet>>

SrvInit ==
    /\ dag = <<>>
    /\ srvReq = [endpoint |-> "none", peer |-> 0, body |-> 0]
    /\ srvResp = NoResp
    /\ srvPosts = 0
    /\ srvAccepted = [r \in RecordIds |-> 0]

\* POST /records
post_records(peer, body) ==
    /\ srvPosts < MaxPosts
    /\ srvPosts' = srvPosts + 1
    /\ Admit(peer)
    /\ srvReq' = [endpoint |-> "/records", peer |-> peer, body |-> body]
    /\ IF ~ AllowResult(requests, peer, now)
       THEN /\ srvResp' = ErrorResp(429, "rate limited")
            /\ UNCHANGED <<dag, srvAccepted>>
       ELSE /\ srvResp' = RecordsResp(body)
            /\ IF RecordsResp(body).status = 200
               THEN /\ dag' = DagInsert(dag, ValidationRecord(body.id, <<>>))
                    /\ srvAccepted' =
                           [srvAccepted EXCEPT ![body.id] = @ + 1]
               ELSE UNCHANGED <<dag, srvAccepted>>
    /\ UNCHANGED wmVars

\* POST /witness
post_witness(peer, body) ==
    /\ srvPosts < MaxPosts
    /\ srvPosts' = srvPosts + 1
    /\ Admit(peer)
    /\ srvReq' = [endpoint |-> "/witness", peer |-> peer, body |-> body]
    /\ UNCHANGED <<dag, srvAccepted>>
    /\ IF ~ AllowResult(requests, peer, now)
       THEN /\ srvResp' = ErrorResp(429, "rate limited")
            /\ UNCHANGED wmVars
       ELSE IF WitnessResp(body, "").status = 200
            THEN \E outcome \in (IF conn THEN PersistOutcomes ELSE {"ok"}) :
                    /\ srvResp' = WitnessResp(body, ServerPayload[1])
                    /\ add_attestation(
                           WitnessAttestation(body.id, ServerIdentity,
                                              ServerPayload[1],
                                              ServerPayload[2]), outcome)
            ELSE /\ srvResp' = WitnessResp(body, "")
                 /\ UNCHANGED wmVars

(* ------------------------------------------------------------------ *)
(* A testnet: several nodes, each running its own server               *)
(* ------------------------------------------------------------------ *)
Nodes == 1..NumNodes

\* identity.identity_hash of a node: every node generates its own key pair
identity_hash(n) == 10 + n

\* What a client sends to the nodes: the wire bytes of records
WireBodies == {b \in Bodies : b.kind = "record"}

NoRequest == [node |-> 0, endpoint |-> "none", body |-> 0,
              outcome |-> "none", resp |-> NoResp]

NetInit ==
    /\ netDisk \in BOOLEAN
    /\ netDag = [n \in Nodes |-> <<>>]
    /\ netStore = [n \in Nodes |-> {}]
    /\ netResults = [n \in Nodes |-> NoResp]
    /\ netReq = NoRequest
    /\ netCalls = 0

\* POST /records sent to node n. The client sends fewer requests than
\* the limiter's default max_requests, so every request is admitted.
node_records(n, body) ==
    /\ netCalls < MaxNetCalls
    /\ netCalls' = netCalls + 1
    /\ netReq' = [node |-> n, endpoint |-> "/records", body |-> body,
                  outcome |-> "none", resp |-> RecordsResp(body)]
    /\ netDag' = IF RecordsResp(body).status = 200
                 THEN [netDag EXCEPT
                         ![n] = DagInsert(@, ValidationRecord(body.id, <<>>))]
                 ELSE netDag
    /\ UNCHANGED <<netDisk, netStore, netResults>>

\* POST /witness sent to node n; outcome is what the INSERT and commit of
\* the node's store do
node_witness(n, body, outcome) ==
    LET resp == WitnessRespOf(identity_hash(n), body, ServerPayload[1])
        att == WitnessAttestation(body.id, resp.witness, ServerPayload[1],
                                  ServerPayload[2])
    IN /\ netCalls < MaxNetCalls
       /\ netCalls' = netCalls + 1
       /\ outcome \in (IF netDisk THEN PersistOutcomes ELSE {"ok"})
       /\ netReq' = [node |-> n, endpoint |-> "/witness", body |-> body,
                     outcome |-> IF resp.status = 200 THEN outcome
                                 ELSE "none",
                     resp |-> resp]
       /\ netStore' = IF resp.status # 200 \/ outcome = "execute_error"
                      THEN netStore
                      ELSE [netStore EXCEPT ![n] = InsertOrIgnore(@, att)]
       /\ netResults' = IF resp.status = 200
                        THEN [netResults EXCEPT ![n] = resp]
                        ELSE netResults
       /\ UNCHANGED <<netDisk, netDag>>

(* ------------------------------------------------------------------ *)
(* PeerDiscovery                                                        *)
(* ------------------------------------------------------------------ *)
STALE_TIMEOUT == 120

\* self._identity_hash
SelfIdentity == 0

\* identity hashes seen on the network, the node's own among them
Identities == 0..NumIdentities

\* identity_hash[:8]: identities 1 and 2 share their first eight characters
Prefix8(identity) == (identity + 1) \div 2

\* A PeerInfo whose heartbeat_failures starts at 1.
PeerInfoOneFailure(identity, state, last_seen) ==
    [identity_hash |-> identity, state |-> state, last_seen |-> last_seen,
     heartbeat_failures |-> 1]

\* PeerInfo(identity_hash=..., state=..., last_seen=...): the other fields
\* take the dataclass defaults
PeerInfo(identity, state, last_seen) ==
    [identity_hash |-> identity, state |-> state, last_seen |-> last_seen,
     heartbeat_failures |-> 0]

PeerKeys(tbl) == {tbl[i].identity_hash : i \in 1..Len(tbl)}

PeerOf(tbl, identity) ==
    tbl[CHOOSE i \in 1..Len(tbl) : tbl[i].identity_hash = identity]

\* self._peers[identity] = peer: a known key keeps its place in the dict
PutPeer(tbl, peer) ==
    IF peer.identity_hash \in PeerKeys(tbl)
    THEN [i \in 1..Len(tbl) |->
             IF tbl[i].identity_hash = peer.identity_hash THEN peer
             ELSE tbl[i]]
    ELSE Append(tbl, peer)

\* The freshness test with its operands swapped.
IsStaleSwapped(t, last_seen) == last_seen - t < STALE_TIMEOUT

\* A freshness test that counts a peer seen exactly STALE_TIMEOUT ago as
\* stale.
IsStaleInclusive(t, last_seen) == t - last_seen >= STALE_TIMEOUT

\* now - peer.last_seen > STALE_TIMEOUT
IsStale(t, last_seen) == t - last_seen > STALE_TIMEOUT

\* The peers property: the table after its freshness scan at time t
ScanPeers(tbl, t) ==
    [i \in 1..Len(tbl) |->
        IF IsStale(t, tbl[i].last_seen)
        THEN [tbl[i] EXCEPT !.state = "stale"]
        ELSE tbl[i]]

\* connected_peers: identities of the peers the property returns
connected_peers(tbl, t) ==
    {ScanPeers(tbl, t)[i].identity_hash :
        i \in {j \in 1..Len(tbl) : ScanPeers(tbl, t)[j].state = "connected"}}

\* self._zeroconf, self._service_info and self._browser are None
NoLan == [zeroconf |-> FALSE, service_info |-> FALSE, browser |-> FALSE]

\* What an operation did: its name, the events passed to bus.emit, and the
\* LAN calls that raised
Op(op, events, raised) == [op |-> op, emitted |-> events, raised |-> raised]

DiscInit ==
    /\ peers = <<>>
    /\ hbRet = << >>
    /\ hbCount = 0
    /\ consec = [i \in Identities |-> 0]
    /\ discOps = 0
    /\ running = FALSE
    /\ lan = NoLan
    /\ discRet = Op("none", <<>>, {})

\* One more discovery operation, within the model's budget
DiscOp ==
    /\ discOps < MaxDiscOps
    /\ discOps' = discOps + 1

\* Reading discovery.peers (directly, or through connected_peers or stats)
read_peers ==
    /\ DiscOp
    /\ peers' = ScanPeers(peers, now)
    /\ discRet' = Op("peers", <<>>, {})
    /\ UNCHANGED <<hbRet, hbCount, consec, running, lan>>

add_peer(identity) ==
    /\ DiscOp
    /\ peers' = PutPeer(peers, PeerInfo(identity, "discovered", now))
    /\ consec' = [consec EXCEPT ![identity] = 0]
    /\ discRet' = Op("add_peer", <<>>, {})
    /\ UNCHANGED <<hbRet, hbCount, running, lan>>

\* if identity and identity != self._identity_hash
Ingest(identity) == identity # SelfIdentity

\* _on_service_state_change, ServiceStateChange.Added, for a service whose
\* identity property is `identity`
mdns_added(identity) ==
    /\ DiscOp
    /\ IF Ingest(identity)
       THEN /\ peers' = PutPeer(peers, PeerInfo(identity, "discovered", now))
            /\ consec' = [consec EXCEPT ![identity] = 0]
            /\ discRet' = Op("added", <<"PEER_DISCOVERED">>, {})
       ELSE /\ discRet' = Op("added", <<>>, {})
            /\ UNCHANGED <<peers, consec>>
    /\ UNCHANGED <<hbRet, hbCount, running, lan>>

\* A Removed branch that deletes the peer.
DropLost(tbl, i) == SubSeq(tbl, 1, i - 1) \o SubSeq(tbl, i + 1, Len(tbl))

\* peer.state = PeerState.STALE for the peer found
MarkLost(tbl, i) == [tbl EXCEPT ![i].state = "stale"]

\* _on_service_state_change, ServiceStateChange.Removed, for a service name
\* "elara-<prefix>...": the first peer of the table whose identity starts
\* with the prefix is marked stale
mdns_removed(prefix) ==
    /\ DiscOp
    /\ LET hits == {i \in 1..Len(peers) :
                       Prefix8(peers[i].identity_hash) = prefix}
       IN IF hits = {}
          THEN discRet' = Op("removed", <<>>, {}) /\ UNCHANGED peers
          ELSE LET first == CHOOSE i \in hits : \A j \in hits : i <= j
               IN /\ peers' = MarkLost(peers, first)
                  /\ discRet' = Op("removed", <<"PEER_LOST">>, {})
    /\ UNCHANGED <<hbRet, hbCount, consec, running, lan>>

\* One ping's effect on a peer
AfterPing(peer, ok, t) ==
    IF ok
    THEN [peer EXCEPT !.state = "connected", !.last_seen = t,
                      !.heartbeat_failures = 0]
    ELSE [peer EXCEPT !.heartbeat_failures = @ + 1,
                      !.state = IF peer.heartbeat_failures + 1 >= 2
                                THEN "stale" ELSE @]

\* heartbeat_once(client): answered is the set of peers whose ping succeeds
heartbeat_once(answered) ==
    /\ DiscOp
    /\ hbCount < MaxHeartbeats
    /\ hbCount' = hbCount + 1
    /\ peers' = [i \in 1..Len(peers) |->
                    IF peers[i].identity_hash = SelfIdentity THEN peers[i]
                    ELSE AfterPing(peers[i],
                                   peers[i].identity_hash \in answered, now)]
    /\ hbRet' = [id \in PeerKeys(peers) \ {SelfIdentity} |->
                    [ok |-> id \in answered, was |-> PeerOf(peers, id).state]]
    /\ consec' = [id \in Identities |->
                    IF id \in PeerKeys(peers) \ {SelfIdentity}
                    THEN (IF id \in answered THEN 0 ELSE consec[id] + 1)
                    ELSE consec[id]]
    /\ discRet' = Op("heartbeat", <<>>, {})
    /\ UNCHANGED <<running, lan>>

\* The peers file handed to the constructor: none or not there, one that
\* cannot be read or parsed, or a list of entries, each an identity_hash
\* with a host and a port
PeersFileContents ==
    {[state |-> "absent", entries |-> <<>>],
     [state |-> "invalid", entries |-> <<>>]}
       \cup {[state |-> "list", entries |-> <<id>>] : id \in Identities}

\* _load_hardcoded_peers: self._peers[identity] = peer for every entry
RECURSIVE LoadPeers(_, _, _)
LoadPeers(tbl, entries, t) ==
    IF entries = <<>> THEN tbl
    ELSE LoadPeers(PutPeer(tbl, PeerInfo(Head(entries), "discovered", t)),
                   Tail(entries), t)

\* How far the mDNS setup of start() gets before it raises: the import
\* fails, Zeroconf() is made and ServiceInfo raises, the service info is
\* made and registering or browsing raises, or all of it succeeds
LanSetups ==
    {NoLan,
     [zeroconf |-> TRUE, service_info |-> FALSE, browser |-> FALSE],
     [zeroconf |-> TRUE, service_info |-> TRUE, browser |-> FALSE],
     [zeroconf |-> TRUE, service_info |-> TRUE, browser |-> TRUE]}

\* PeerDiscovery.start
disc_start(file, setup_reached) ==
    /\ DiscOp
    /\ IF running
       THEN /\ discRet' = Op("start", <<>>, {})
            /\ UNCHANGED <<peers, consec, running, lan>>
       ELSE /\ peers' = LoadPeers(peers, file.entries, now)
            /\ consec' = [id \in Identities |->
                             IF id \in SeqRange(file.entries) THEN 0
                             ELSE consec[id]]
            /\ lan' = setup_reached
            /\ running' = TRUE
            /\ discRet' = Op("start", <<"NETWORK_STARTED">>, {})
    /\ UNCHANGED <<hbRet, hbCount>>

\* The LAN calls of stop() that can raise
LanCalls == {"unregister_service", "close"}

\* A teardown that gives up when a LAN call raises.
StopCompletesUnguarded(raised) == raised = {}

\* stop(): both LAN calls are wrapped in try/except Exception: pass
StopCompletes(raised) == TRUE

\* The LAN calls stop() makes
LanCallsMade ==
    (IF lan.zeroconf /\ lan.service_info THEN {"unregister_service"} ELSE {})
      \cup (IF lan.zeroconf THEN {"close"} ELSE {})

\* PeerDiscovery.stop; raises is the set of LAN calls that raise if made
disc_stop(raises) ==
    /\ DiscOp
    /\ LET raised == raises \cap LanCallsMade
       IN IF ~ running
          THEN /\ discRet' = Op("stop", <<>>, {})
               /\ UNCHANGED <<running, lan>>
          ELSE IF StopCompletes(raised)
          THEN /\ lan' = NoLan
               /\ running' = FALSE
               /\ discRet' = Op("stop", <<"NETWORK_STOPPED">>, raised)
          ELSE /\ discRet' = Op("stop", <<>>, raised)
               /\ UNCHANGED <<running, lan>>
    /\ UNCHANGED <<peers, hbRet, hbCount, consec>>

\* time.time() advances between discovery operations
DiscTick ==
    /\ now < MaxTicks * TickSeconds
    /\ now' = now + TickSeconds
    /\ UNCHANGED <<maxRequests, window, requests, calls, rlRet>>

(* ------------------------------------------------------------------ *)
(* L1Bridge                                                             *)
(* ------------------------------------------------------------------ *)
\* self._last_validated_hash before any record is known
None == 0

\* An allowlist that also holds the bridge's own event.
get_validated_events_with_own ==
    [e \in {"MODEL_CREATED", "PREDICTION_MADE", "PRINCIPLE_CRYSTALLIZED",
            "WORKFLOW_CREATED", "CORRECTION_ADDED", "DREAM_COMPLETED",
            "EPISODE_ENDED", "HANDOFF_SAVED", "SYNTHESIS_CREATED",
            "OUTCOME_RECORDED", "ARTIFACT_VALIDATED"} |-> "artifact"]

\* _get_validated_events(): event type -> artifact type
get_validated_events ==
    [MODEL_CREATED |-> "model",
     PREDICTION_MADE |-> "prediction",
     PRINCIPLE_CRYSTALLIZED |-> "principle",
     WORKFLOW_CREATED |-> "workflow",
     CORRECTION_ADDED |-> "correction",
     DREAM_COMPLETED |-> "dream",
     EPISODE_ENDED |-> "episode",
     HANDOFF_SAVED |-> "handoff",
     SYNTHESIS_CREATED |-> "synthesis",
     OUTCOME_RECORDED |-> "outcome"]

\* Event types handed to the handler: a creation event and the bridge's
\* own ARTIFACT_VALIDATED, which is no creation event
EventTypes == {"MODEL_CREATED", "ARTIFACT_VALIDATED"}

\* LocalDAG.tips(): the stored records no stored record names as a parent
HasChild(d, id) ==
    \E i \in 1..Len(d) : \E k \in 1..Len(d[i].parents) : d[i].parents[k] = id

RECURSIVE TipsFrom(_, _)
TipsFrom(d, i) ==
    IF i > Len(d) THEN <<>>
    ELSE IF HasChild(d, d[i].id) THEN TipsFrom(d, i + 1)
    ELSE <<d[i].id>> \o TipsFrom(d, i + 1)

tips(d) == TipsFrom(d, 1)

\* A construction that does not read the tips.
init_last_hash_none(d) == None

\* L1Bridge._init_last_hash: the last tip, None for an empty DAG
init_last_hash(d) ==
    IF tips(d) # <<>> THEN tips(d)[Len(tips(d))] ELSE None

\* A parent list that ignores the chain pointer.
ParentsNone(h) == <<>>

\* _validate: parents = [self._last_validated_hash] if it is set else []
Parents(h) == IF h # None THEN <<h>> ELSE <<>>

\* An order in which the chain pointer is moved before the insert.
StepsPointerFirst ==
    <<"lookup", "content", "metadata", "create", "sign", "pointer", "insert",
      "emit">>

\* An order in which the event is emitted before the insert.
StepsEmitFirst ==
    <<"lookup", "content", "metadata", "create", "sign", "emit", "insert",
      "pointer">>

\* The steps of _handle_event and the _validate it calls, in program order
Steps ==
    <<"lookup", "content", "metadata", "create", "sign", "insert", "pointer",
      "emit">>

\* The steps that can raise
FailPoints ==
    {"none", "content", "metadata", "create", "sign", "insert", "emit"}

StepIndex(step) == CHOOSE i \in 1..Len(Steps) : Steps[i] = step

\* step ran to its end when the handler failed at fail
Done(step, fail) == fail = "none" \/ StepIndex(step) < StepIndex(fail)

\* step was started
Reached(step, fail) == fail = "none" \/ StepIndex(step) <= StepIndex(fail)

\* A try block that ends before the emission.
CaughtBeforeEmit(step) == step # "emit"

\* _handle_event: the try block holds every step, except Exception catches
Caught(step) == \E i \in 1..Len(Steps) : Steps[i] = step

\* The threads that emit events
Threads == {1, 2}

\* A thread that is not inside _handle_event
NotHandling == [pc |-> "idle", type |-> "", rec |-> ValidationRecord(0, <<>>)]

\* ValidationRecord.create: the id is a hash no other record has
NewId == NumRecords + brCreated + 1

\* The DAGs a bridge can be constructed over: records 1..n in insertion
\* order, each with no parent or one earlier record as its parent
InitialDags ==
    {d \in UNION {[1..n -> {ValidationRecord(i, ps) :
                              i \in RecordIds,
                              ps \in {<<>>} \cup {<<j>> : j \in RecordIds}}] :
                    n \in 0..NumRecords} :
        \A i \in 1..Len(d) :
            /\ d[i].id = i
            /\ \A k \in 1..Len(d[i].parents) : d[i].parents[k] < i}

\* L1Bridge.__init__
BrInit ==
    /\ brDag \in InitialDags
    /\ lastValidatedHash = init_last_hash(brDag)
    /\ brInitTips = tips(brDag)
    /\ subscribed = {}
    /\ emitted = <<>>
    /\ produced = <<>>
    /\ brCreated = 0
    /\ brEvents = 0
    /\ brRet = [type |-> "", fail |-> "none", raised |-> FALSE,
                prev |-> "none"]
    /\ brThreads = [t \in Threads |-> NotHandling]
    /\ brRestarts = <<>>

\* A setup that subscribes the handler to the bridge's own event too.
setup_with_own ==
    /\ subscribed = {}
    /\ subscribed' = DOMAIN get_validated_events \cup {"ARTIFACT_VALIDATED"}
    /\ UNCHANGED <<brDag, lastValidatedHash, emitted, produced, brInitTips,
                   brCreated, brEvents, brRet, brThreads, brRestarts>>

\* L1Bridge.setup
setup ==
    /\ subscribed = {}
    /\ subscribed' = DOMAIN get_validated_events
    /\ UNCHANGED <<brDag, lastValidatedHash, emitted, produced, brInitTips,
                   brCreated, brEvents, brRet, brThreads, brRestarts>>

\* L1Bridge._handle_event with the _validate it calls; fail names the step
\* that raises, "none" when none does
handle_event(type, fail) ==
    /\ subscribed # {}
    /\ brEvents < MaxEvents
    /\ type \notin DOMAIN get_validated_events => fail = "none"
    /\ brEvents' = brEvents + 1
    /\ LET mapped == type \in DOMAIN get_validated_events
           rec == ValidationRecord(NewId, Parents(lastValidatedHash))
       IN /\ brCreated' =
                 IF mapped /\ Done("create", fail) THEN brCreated + 1
                 ELSE brCreated
          /\ brDag' =
                 IF mapped /\ Done("insert", fail) THEN DagInsert(brDag, rec)
                 ELSE brDag
          /\ produced' =
                 IF mapped /\ Done("insert", fail) THEN Append(produced, rec)
                 ELSE produced
          /\ lastValidatedHash' =
                 IF mapped /\ Done("pointer", fail) THEN rec.id
                 ELSE lastValidatedHash
          /\ emitted' =
                 IF mapped /\ Reached("emit", fail)
                 THEN Append(emitted,
                             [record_id |-> rec.id,
                              artifact_type |-> get_validated_events[type]])
                 ELSE emitted
    /\ brRet' = [type |-> type, fail |-> fail,
                 raised |-> (fail # "none" /\ ~ Caught(fail)),
                 prev |-> brRet.fail]
    /\ UNCHANGED <<subscribed, brInitTips, brThreads, brRestarts>>

\* LocalDAG.insert by another holder of the DAG: a record of some other
\* creator, with no parent or the latest stored record as its parent
insert_foreign(id, parents) ==
    /\ id \notin DagIds(brDag)
    /\ parents # <<>> =>
          /\ brDag # <<>>
          /\ parents = <<brDag[Len(brDag)].id>>
    /\ brDag' = DagInsert(brDag, ValidationRecord(id, parents))
    /\ UNCHANGED <<lastValidatedHash, subscribed, emitted, produced,
                   brInitTips, brCreated, brEvents, brRet, brThreads,
                   brRestarts>>

\* The process ends and a new L1Bridge is constructed over the DAG file:
\* __init__ with _init_last_hash; the new instance has not subscribed
restart ==
    /\ Len(brRestarts) < MaxRestarts
    /\ lastValidatedHash' = init_last_hash(brDag)
    /\ brInitTips' = tips(brDag)
    /\ subscribed' = {}
    /\ brRestarts' = Append(brRestarts, Len(brDag))
    /\ UNCHANGED <<brDag, emitted, produced, brCreated, brEvents, brRet,
                   brThreads>>

\* _handle_event on the thread that emitted the event. A thread is at
\* the statement it executes next: the insert (line 268), the write of
\* the chain pointer (line 271) or the emission (line 275).
th_begin(t, type) ==
    /\ subscribed # {}
    /\ brEvents < MaxEvents
    /\ brThreads[t].pc = "idle"
    /\ brEvents' = brEvents + 1
    /\ IF type \in DOMAIN get_validated_events
       THEN /\ brThreads' =
                  [brThreads EXCEPT
                      ![t] = [pc |-> "insert", type |-> type,
                              rec |-> ValidationRecord(
                                          NewId, Parents(lastValidatedHash))]]
            /\ brCreated' = brCreated + 1
       ELSE UNCHANGED <<brThreads, brCreated>>
    /\ UNCHANGED <<brDag, lastValidatedHash, subscribed, emitted, produced,
                   brInitTips, brRet, brRestarts>>

\* record_hash = self._dag.insert(record, verify_signature=True)
th_insert(t) ==
    /\ brThreads[t].pc = "insert"
    /\ brDag' = DagInsert(brDag, brThreads[t].rec)
    /\ produced' = Append(produced, brThreads[t].rec)
    /\ brThreads' = [brThreads EXCEPT ![t].pc = "pointer"]
    /\ UNCHANGED <<lastValidatedHash, subscribed, emitted, brInitTips,
                   brCreated, brEvents, brRet, brRestarts>>

\* self._last_validated_hash = record.id
th_pointer(t) ==
    /\ brThreads[t].pc = "pointer"
    /\ lastValidatedHash' = brThreads[t].rec.id
    /\ brThreads' = [brThreads EXCEPT ![t].pc = "emit"]
    /\ UNCHANGED <<brDag, subscribed, emitted, produced, brInitTips,
                   brCreated, brEvents, brRet, brRestarts>>

\* bus.emit(Events.ARTIFACT_VALIDATED, ...) and the return
th_emit(t) ==
    /\ brThreads[t].pc = "emit"
    /\ emitted' = Append(emitted,
                         [record_id |-> brThreads[t].rec.id,
                          artifact_type |->
                              get_validated_events[brThreads[t].type]])
    /\ brThreads' = [brThreads EXCEPT ![t] = NotHandling]
    /\ UNCHANGED <<brDag, lastValidatedHash, subscribed, produced,
                   brInitTips, brCreated, brEvents, brRet, brRestarts>>

(* ------------------------------------------------------------------ *)
(* NetworkClient                                                        *)
(* ------------------------------------------------------------------ *)
ClientMethods ==
    {"submit_record", "query_records", "request_witness", "get_status",
     "ping", "query_attestations"}

\* What can go wrong in a call: the transport failures, and aiohttp missing
\* when the session is created
TransportFailures == {"refused", "timeout", "unreachable", "unparsable"}

ClientFailures == TransportFailures \cup {"no_aiohttp"}

\* str(e) of the exception a failure raises; a total timeout raises
\* asyncio.TimeoutError, whose message is empty
ExcMessages(fail) ==
    CASE fail = "refused" -> {"Cannot connect to host"}
      [] fail = "timeout" -> {"", "Connection timeout to host"}
      [] fail = "unreachable" -> {"Network is unreachable"}
      [] fail = "unparsable" -> {"Attempt to decode JSON"}
      [] fail = "no_aiohttp" -> {"No module named aiohttp"}
      [] OTHER -> {""}

\* The statement of a method at which a failure is raised
FailStep(fail) ==
    CASE fail = "no_aiohttp" -> "session"
      [] fail = "unparsable" -> "json"
      [] OTHER -> "request"

\* A try block that ends before the response is parsed.
InTryRequestOnly(step) == step = "request"

\* Every method: the session is fetched before the try block; the request,
\* the parsing of the response and the use of the result are inside it
InTry(step) == step \in {"request", "json", "result"}

\* The JSON a node answers with: an object or some other JSON value; an
\* object may carry an error, pong, a list under records/attestations, and
\* a signature that is hex of a signature made by the witness ("good"), hex
\* of some other signature ("forged"), no hex at all, or absent
NoJson ==
    [shape |-> "none", error |-> "", pong |-> FALSE, items |-> <<>>,
     signature |-> "absent", verified |-> FALSE]

JsonValues ==
    {[NoJson EXCEPT !.shape = "array"],
     [NoJson EXCEPT !.shape = "object", !.error = "rate limited"]}
    \cup {[NoJson EXCEPT !.shape = "object", !.pong = pg, !.items = it,
                         !.signature = sg] :
             pg \in BOOLEAN, it \in {<<>>, <<1>>},
             sg \in {"absent", "good", "forged", "nothex"}}

\* What a call gives its caller
Returned(kind, error, body, items) ==
    [kind |-> kind, error |-> error, body |-> body, items |-> items]

NoReturn == Returned("none", "", NoJson, <<>>)

ErrorMap(msg) == Returned("error", msg, NoJson, <<>>)

JsonResult(body) == Returned("json", "", body, <<>>)

ListResult(items) == Returned("list", "", NoJson, items)

NoneResult == Returned("None", "", NoJson, <<>>)

RttResult == Returned("rtt", "", NoJson, <<>>)

\* An exception that leaves the method
Raised(msg) == Returned("raise", msg, NoJson, <<>>)

\* The except clauses: {"error": str(e)}, [] or None, by method
OnException(method, msg) ==
    CASE method \in {"submit_record", "request_witness", "get_status"} ->
             ErrorMap(msg)
      [] method \in {"query_records", "query_attestations"} ->
             ListResult(<<>>)
      [] OTHER -> NoneResult

\* Truth value of an Optional[bytes] argument
Truthy(bytes) == bytes \notin {"none", "empty"}

\* WitnessAttestation.verify: True for the witness's signature over these
\* signable bytes under the witness's key, False otherwise and whenever
\* liboqs is unavailable
verify(signable, signature, public_key, oqs) ==
    oqs /\ signature = "good" /\ public_key = "witness"
        /\ signable = "record"

\* The arguments a caller may pass as verify_key and signable
VerifyKeys == {"none", "empty", "witness", "other"}

Signables == {"none", "empty", "record", "other"}

\* A check of the signature that lets a failed verification through.
WitnessResultUnchecked(resp, key, sg, oqs) ==
    IF Truthy(key) /\ Truthy(sg) /\ resp.shape = "object"
          /\ resp.signature # "absent"
    THEN IF resp.signature = "nothex"
         THEN [thrown |-> TRUE, msg |-> "non-hexadecimal number found",
               value |-> NoReturn]
         ELSE [thrown |-> FALSE, msg |-> "",
               value |-> JsonResult([resp EXCEPT !.verified = TRUE])]
    ELSE [thrown |-> FALSE, msg |-> "", value |-> JsonResult(resp)]

\* request_witness once the response is parsed: verify the signature when
\* verify_key, signable and a signature are there, else hand the result on
WitnessResult(resp, key, sg, oqs) ==
    IF Truthy(key) /\ Truthy(sg) /\ resp.shape = "object"
          /\ resp.signature # "absent"
    THEN IF resp.signature = "nothex"
         THEN [thrown |-> TRUE, msg |-> "non-hexadecimal number found",
               value |-> NoReturn]
         ELSE IF ~ verify(sg, resp.signature, key, oqs)
         THEN [thrown |-> FALSE, msg |-> "",
               value |-> ErrorMap("witness signature verification failed")]
         ELSE [thrown |-> FALSE, msg |-> "",
               value |-> JsonResult([resp EXCEPT !.verified = TRUE])]
    ELSE [thrown |-> FALSE, msg |-> "", value |-> JsonResult(resp)]

\* What each method does with the parsed response: a value to return, or
\* an exception raised inside the try block
UseResult(method, resp, key, sg, oqs) ==
    CASE method \in {"submit_record", "get_status"} ->
             [thrown |-> FALSE, msg |-> "", value |-> JsonResult(resp)]
      [] method \in {"query_records", "query_attestations"} ->
             IF resp.shape = "object"
             THEN [thrown |-> FALSE, msg |-> "",
                   value |-> ListResult(resp.items)]
             ELSE [thrown |-> TRUE, msg |-> "list has no attribute get",
                   value |-> NoReturn]
      [] method = "ping" ->
             IF resp.shape = "object"
             THEN [thrown |-> FALSE, msg |-> "",
                   value |-> IF resp.pong THEN RttResult ELSE NoneResult]
             ELSE [thrown |-> TRUE, msg |-> "list has no attribute get",
                   value |-> NoReturn]
      [] OTHER -> WitnessResult(resp, key, sg, oqs)

\* An exception raised at step: caught when inside the try block
Handle(method, step, msg) ==
    IF InTry(step) THEN OnException(method, msg) ELSE Raised(msg)

\* The value a call gives its caller
CallValue(method, fail, msg, resp, key, sg, oqs) ==
    IF fail # "none" THEN Handle(method, FailStep(fail), msg)
    ELSE LET r == UseResult(method, resp, key, sg, oqs)
         IN IF r.thrown THEN Handle(method, "result", r.msg) ELSE r.value

ClInit ==
    /\ clSession = FALSE
    /\ clCalls = 0
    /\ clRet = [method |-> "none", fail |-> "none", resp |-> NoJson,
                key |-> "none", signable |-> "none", oqs |-> TRUE,
                value |-> NoReturn]

\* One call of a method: fail is what goes wrong ("none": the node answers
\* resp), msg the message of the exception raised
Call(method, fail, msg, resp, key, sg, oqs) ==
    /\ clCalls < MaxClientCalls
    /\ fail \in ClientFailures \cup {"none"}
    /\ fail = "no_aiohttp" => ~ clSession
    /\ IF fail = "none" THEN msg = "" /\ resp \in JsonValues
       ELSE msg \in ExcMessages(fail) /\ resp = NoJson
    /\ clCalls' = clCalls + 1
    /\ clSession' = (clSession \/ fail # "no_aiohttp")
    /\ clRet' = [method |-> method, fail |-> fail, resp |-> resp,
                 key |-> key, signable |-> sg, oqs |-> oqs,
                 value |-> CallValue(method, fail, msg, resp, key, sg, oqs)]

submit_record(fail, msg, resp) ==
    Call("submit_record", fail, msg, resp, "none", "none", TRUE)

query_records(fail, msg, resp) ==
    Call("query_records", fail, msg, resp, "none", "none", TRUE)

request_witness(fail, msg, resp, key, sg, oqs) ==
    Call("request_witness", fail, msg, resp, key, sg, oqs)

get_status(fail, msg, resp) ==
    Call("get_status", fail, msg, resp, "none", "none", TRUE)

ping(fail, msg, resp) ==
    Call("ping", fail, msg, resp, "none", "none", TRUE)

query_attestations(fail, msg, resp) ==
    Call("query_attestations", fail, msg, resp, "none", "none", TRUE)

\* NetworkClient.close
cl_close ==
    /\ clSession
    /\ clSession' = FALSE
    /\ UNCHANGED <<clCalls, clRet>>

(* ------------------------------------------------------------------ *)
(* Bootstrap: network config and peer sources                           *)
(* ------------------------------------------------------------------ *)
\* A key a JSON object does not have
Absent == <<"absent", "", 0>>

\* An entry of a seed_nodes or peers list; host "" and port 0 also stand
\* for a missing key, which .get() turns into them
Entry(host, port, node_type, identity) ==
    [host |-> host, port |-> port, node_type |-> node_type,
     identity_hash |-> identity]

EntryPool ==
    {Entry("h1", 9473, "absent", Absent),
     Entry("h2", 9473, "witness", <<"id", "h2", 0>>),
     Entry("", 9473, "absent", Absent),
     Entry("h1", 0, "absent", Absent)}

ListsOf(pool) == UNION {[1..k -> pool] : k \in 0..MaxEntries}

Lists == ListsOf(EntryPool)

DEFAULT_SEEDS ==
    <<Entry("node.navigatorbuilds.com", 9473, "relay", Absent)>>

\* if host and port
Usable(e) == e.host # "" /\ e.port # 0

\* f"{host}:{port}"
HostPort(e) == <<e.host, e.port>>

\* The peer dict built from an entry: node_type and identity_hash default
\* to the source's own values
PeerDict(e, default_type, prefix) ==
    [host |-> e.host, port |-> e.port,
     node_type |-> IF e.node_type = "absent" THEN default_type
                   ELSE e.node_type,
     identity_hash |-> IF e.identity_hash = Absent
                       THEN <<prefix, e.host, e.port>>
                       ELSE e.identity_hash]

\* The configs bootstrap_peers is called with: with or without seed_nodes
Configs == {[has_seeds |-> FALSE, seed_nodes |-> <<>>]}
             \cup {[has_seeds |-> TRUE, seed_nodes |-> l] : l \in Lists}

RECURSIVE MapUsable(_, _, _)
MapUsable(list, default_type, prefix) ==
    IF list = <<>> THEN <<>>
    ELSE (IF Usable(Head(list))
          THEN <<PeerDict(Head(list), default_type, prefix)>> ELSE <<>>)
         \o MapUsable(Tail(list), default_type, prefix)

resolve_seed_peers(config) ==
    MapUsable(IF config.has_seeds THEN config.seed_nodes ELSE DEFAULT_SEEDS,
              "relay", "seed")

\* seen: the dict as the sequence of its values, in insertion order
SeenKeys(seen) == {HostPort(seen[i]) : i \in 1..Len(seen)}

\* seen[key] = peer
Put(seen, peer) ==
    IF HostPort(peer) \in SeenKeys(seen)
    THEN [i \in 1..Len(seen) |->
             IF HostPort(seen[i]) = HostPort(peer) THEN peer ELSE seen[i]]
    ELSE Append(seen, peer)

\* A store that does not test the key.
PutUntested(seen, peer) == Append(seen, peer)

\* if key not in seen: seen[key] = peer
PutNew(seen, peer) ==
    IF HostPort(peer) \in SeenKeys(seen) THEN seen ELSE Append(seen, peer)

RECURSIVE PutAll(_, _)
PutAll(seen, peerList) ==
    IF peerList = <<>> THEN seen
    ELSE PutAll(Put(seen, Head(peerList)), Tail(peerList))

RECURSIVE PutAllNew(_, _)
PutAllNew(seen, peerList) ==
    IF peerList = <<>> THEN seen
    ELSE PutAllNew(PutNew(seen, Head(peerList)), Tail(peerList))

\* The peers file: no path given, no such file, read_text raises OSError,
\* its text is no JSON, its JSON is no object, or an object with or
\* without a peers list
PeersFiles ==
    {[state |-> st, peers |-> <<>>] :
        st \in {"none", "missing", "unreadable", "badjson", "nonobject",
                 "nopeers"}}
      \cup {[state |-> "object", peers |-> l] : l \in Lists}

\* What the request to GITHUB_PEERS_URL does: it fails or times out, the
\* body is no JSON, its JSON is no object, or an object with seed_nodes
RemoteLists ==
    {[state |-> st, seed_nodes |-> <<>>] :
        st \in {"unreachable", "badjson", "nonobject"}}
      \cup {[state |-> "object", seed_nodes |-> l] :
               l \in ListsOf({e \in EntryPool :
                                e.port # 0 /\ e.identity_hash = Absent})}

\* The remote nodes carry "type" for node_type, and an identity_hash of
\* theirs is not read
AsRemote(list) ==
    [i \in 1..Len(list) |-> [list[i] EXCEPT !.identity_hash = Absent]]

\* fetch_github_peers: every failure is caught and gives []
fetch_github_peers(remote) ==
    IF remote.state = "object"
    THEN MapUsable(AsRemote(remote.seed_nodes), "relay", "github")
    ELSE <<>>

\* A fallback that is tried whatever is known already.
NeedFallbackAlways(seen) == TRUE

\* if not seen
NeedFallback(seen) == seen = <<>>

\* data.get on JSON that is no object raises AttributeError, which the
\* except clause of step 2 does not catch
FileRaises(file) == file.state = "nonobject"

AfterFile(seen, file) ==
    IF file.state = "object"
    THEN PutAllNew(seen, MapUsable(file.peers, "leaf", "file"))
    ELSE seen

\* The keys of the built-in defaults
ConfigKeys == {"enabled", "node_type", "port", "seed_nodes"}

\* A config as a map from its keys to where each value comes from
defaults == [k \in ConfigKeys |-> "default"]

\* The config file: absent; read_text raises OSError; its bytes are no
\* UTF-8 text; its text is no JSON; its JSON is a list, a string or a
\* number (a list or string may hold every key of the defaults); or an
\* object that has some of the keys
ConfigFiles ==
    {[state |-> st, has |-> {}] :
        st \in {"absent", "unreadable", "badutf8", "badjson", "list",
                 "string", "number", "list_of_keys", "string_of_keys"}}
      \cup {[state |-> "object", has |-> h] : h \in SUBSET ConfigKeys}

\* except (json.JSONDecodeError, OSError)
CaughtOnLoad == {"unreadable", "badjson"}

\* "key not in data" is true and "data[key] = ..." raises TypeError on a
\* list or string; "key not in data" itself raises it on a number;
\* read_text raises UnicodeDecodeError on bytes that are no text
RaisesOnLoad == {"badutf8", "list", "string", "number"}

\* for key in defaults: if key not in data: data[key] = defaults[key]
Merge(has) == [k \in ConfigKeys |-> IF k \in has THEN "file" ELSE "default"]

NoConfig == [k \in ConfigKeys |-> "none"]

LoadResult(file) ==
    IF file.state = "absent" \/ file.state \in CaughtOnLoad
    THEN [kind |-> "map", value |-> defaults]
    ELSE IF file.state \in RaisesOnLoad
    THEN [kind |-> "raise", value |-> NoConfig]
    ELSE IF file.state = "object"
    THEN [kind |-> "map", value |-> Merge(file.has)]
    ELSE [kind |-> file.state, value |-> NoConfig]

BsIdle ==
    bsRet = [op |-> "none", config |-> [has_seeds |-> FALSE,
                                       seed_nodes |-> <<>>],
             file |-> [state |-> "none", peers |-> <<>>],
             remote |-> [state |-> "unreachable", seed_nodes |-> <<>>],
             raised |-> FALSE, fetched |-> FALSE, peers |-> <<>>,
             cfile |-> [state |-> "absent", has |-> {}],
             loaded |-> [kind |-> "none", value |-> NoConfig]]

load_network_config(file) ==
    /\ bsRet.op = "none"
    /\ bsRet' = [op |-> "load_network_config",
                 config |-> [has_seeds |-> FALSE, seed_nodes |-> <<>>],
                 file |-> [state |-> "none", peers |-> <<>>],
                 remote |-> [state |-> "unreachable", seed_nodes |-> <<>>],
                 raised |-> LoadResult(file).kind = "raise",
                 fetched |-> FALSE, peers |-> <<>>,
                 cfile |-> file, loaded |-> LoadResult(file)]

bootstrap_peers(config, file, remote) ==
    LET seeded == PutAll(<<>>, resolve_seed_peers(config))
        known == AfterFile(seeded, file)
        fetch == ~ FileRaises(file) /\ NeedFallback(known)
    IN /\ bsRet.op = "none"
       /\ bsRet' = [op |-> "bootstrap_peers", config |-> config,
                    file |-> file, remote |-> remote,
                    raised |-> FileRaises(file),
                    fetched |-> fetch,
                    peers |-> IF FileRaises(file) THEN <<>>
                              ELSE IF fetch
                              THEN PutAllNew(known,
                                             fetch_github_peers(remote))
                              ELSE known,
                    cfile |-> [state |-> "absent", has |-> {}],
                    loaded |-> [kind |-> "none", value |-> NoConfig]]

(* ------------------------------------------------------------------ *)
(* TrustScore.compute                                                   *)
(* ------------------------------------------------------------------ *)
\* A witness count is a Python int: a small one, written out, or a power
\* of two 2^v too large to write out (big). The doubles the function meets
\* are 1/d and 1 - 1/d for such a d, and 1.0.
Small(i) == [big |-> FALSE, v |-> i]

Pow2(k) == [big |-> TRUE, v |-> k]

\* The big counts: 2^53 is where doubles stop holding every integer,
\* 2^1024 is beyond the largest double
Counts == {Small(i) : i \in (0 - 2)..MaxCount}
            \cup {Pow2(k) : k \in {53, 54, 55, 1024}}

\* witness_count < 0
Negative(n) == ~ n.big /\ n.v < 0

\* d1 < d2
Below(d1, d2) == IF d1.big = d2.big THEN d1.v < d2.v ELSE d2.big

\* 1.0 + witness_count converts the int to a double first, which raises
\* OverflowError from 2^1024 on
Overflows(n) == n.big /\ n.v >= 1024

\* 1.0 + witness_count: exact for a small count; 2^k + 1 with k >= 53 is
\* no double and rounds to 2^k
OnePlus(n) == IF n.big THEN n ELSE Small(n.v + 1)

\* The double 1 - 1/d, and the double 1.0
OneMinusInverse(d) == [kind |-> "float", is_one |-> FALSE, d |-> d]

One == [kind |-> "float", is_one |-> TRUE, d |-> Small(0)]

Zero == OneMinusInverse(Small(1))

TrRaised == [kind |-> "raise", is_one |-> FALSE, d |-> Small(0)]

\* 1.0 - 1.0 / d in doubles of 53 significant bits: 1 - 2^-k is a double
\* up to k = 53; 1 - 2^-54 lies halfway between 1 - 2^-53 and 1.0 and
\* rounds to the even one, 1.0, as does everything closer to 1.0
OneMinus(d) == IF d.big /\ d.v >= 54 THEN One ELSE OneMinusInverse(d)

\* TrustScore.compute
compute(n) ==
    IF Negative(n) THEN Zero
    ELSE IF Overflows(n) THEN TrRaised
    ELSE OneMinus(OnePlus(n))

\* r1 <= r2 for two returned doubles
AtMost(r1, r2) ==
    \/ r2.is_one
    \/ ~ r1.is_one /\ ~ Below(r2.d, r1.d)

NoCall == [n |-> Small(0), value |-> TrRaised, called |-> FALSE]

trust_compute(n) ==
    /\ trRet' = [last |-> [n |-> n, value |-> compute(n), called |-> TRUE],
                 prev |-> trRet.last]
    /\ UNCHANGED <<twAtts, twRet, lvRet>>

(* ------------------------------------------------------------------ *)
(* TrustScore.compute_weighted                                          *)
(* ------------------------------------------------------------------ *)
\* The weighted score is computed in fixed point: a weight is a number of
\* thousandths, a score a number of millionths.
WeightScale == 1000

ScoreScale == 1000000

Scaled(v) == [kind |-> "scaled", is_one |-> FALSE, d |-> Small(v)]

\* A key the dict does not have
Missing == << >>

\* The empty string, as a pair of its first eight characters and the rest
Empty == <<"", "">>

\* An attestation dict: timestamp is <<d>>, d the number of days from now
\* (negative in the past); witness_identity_hash is a pair of its first
\* eight characters and the rest; either may be Missing
AttDict(timestamp, identity) ==
    [timestamp |-> timestamp, witness_identity_hash |-> identity]

\* att.get("timestamp", now), as days from now
TimestampOf(att) ==
    IF att.timestamp = Missing THEN 0 ELSE att.timestamp[1]

\* max(0, (now - ts)) / 86400.0
AgeDays(att) == IF TimestampOf(att) > 0 THEN 0 ELSE 0 - TimestampOf(att)

\* math.exp(-0.03 * age_days) in thousandths: 1 at age 0, 0.502 after 23
\* days, 0.050 after 100 days, and 0.0 once the exponent is below the
\* smallest double (age above 24 834 days)
Decay(age_days) ==
    CASE age_days = 0 -> 1000
      [] age_days = 23 -> 502
      [] age_days = 100 -> 50
      [] OTHER -> 0

Weight(att) == Decay(AgeDays(att))

\* att.get("witness_identity_hash", "")
IdentityOf(att) ==
    IF att.witness_identity_hash = Missing THEN Empty
    ELSE att.witness_identity_hash

\* identity[:8]
Prefix(identity) == identity[1]

RECURSIVE TotalWeight(_)
TotalWeight(atts) ==
    IF atts = <<>> THEN 0
    ELSE TotalWeight(SubSeq(atts, 1, Len(atts) - 1)) + Weight(atts[Len(atts)])

\* the set prefixes after the loop
Prefixes(atts) ==
    {Prefix(IdentityOf(atts[i])) :
        i \in {j \in 1..Len(atts) : IdentityOf(atts[j]) # Empty}}

\* 0.20 * (len(prefixes) - 1) / len(prefixes) when there are two or more
DiversityBonus(prefixes) ==
    LET k == Cardinality(prefixes)
    IN IF k > 1 THEN ((ScoreScale \div 5) * (k - 1)) \div k ELSE 0

\* 1.0 - 1.0 / (1.0 + total_weight)
Base(total_weight) ==
    ScoreScale - (ScoreScale * WeightScale) \div (WeightScale + total_weight)

\* The score without the cap.
Uncapped(x) == x

\* min(x, 0.999)
Capped(x) == IF x < 999 * (ScoreScale \div 1000) THEN x
             ELSE 999 * (ScoreScale \div 1000)

\* TrustScore.compute_weighted, in millionths
compute_weighted(atts) ==
    IF atts = <<>> THEN 0
    ELSE Capped(Base(TotalWeight(atts)) + DiversityBonus(Prefixes(atts)))

\* The attestations the lists are made of, in the order they are added:
\* six fresh ones with six different prefixes, one sharing a prefix, one
\* with no timestamp and an empty identity, one so old that its weight is
\* 0.0, one from the future with no identity key, and two older ones
AttPool ==
    << AttDict(<<0>>, <<"p1", "a">>), AttDict(<<0 - 23>>, <<"p1", "b">>),
       AttDict(<<0>>, <<"p2", "a">>), AttDict(<<0>>, <<"p3", "a">>),
       AttDict(<<0>>, <<"p4", "a">>), AttDict(<<0>>, <<"p5", "a">>),
       AttDict(<<0>>, <<"p6", "a">>), AttDict(Missing, Empty),
       AttDict(<<0 - 25000>>, <<"p7", "a">>), AttDict(<<1>>, Missing),
       AttDict(<<0 - 100>>, <<"p2", "b">>) >>

\* The position in the pool of the attestation added last, 0 for none
LastAdded == twRet.added

NoWeighted == [called |-> FALSE, score |-> 0, before |-> 0, added |-> 0]

\* compute_weighted(atts) and compute_weighted(atts + [att]) for the same
\* now
trust_compute_weighted(i) ==
    /\ i > LastAdded
    /\ twAtts' = Append(twAtts, AttPool[i])
    /\ twRet' = [called |-> TRUE, score |-> compute_weighted(twAtts'),
                 before |-> compute_weighted(twAtts), added |-> i]
    /\ UNCHANGED <<trRet, lvRet>>

(* ------------------------------------------------------------------ *)
(* TrustScore.level                                                     *)
(* ------------------------------------------------------------------ *)
NaN == [kind |-> "nan", is_one |-> FALSE, d |-> Small(0)]

\* score < pct / 100 for a double: 1 - 1/d for a count d, 1.0, a number of
\* millionths, or NaN (every comparison with NaN is false). 1 - 1/2,
\* 1 - 1/4 and 1.0 - 1.0/10.0 are the doubles 0.5, 0.75 and 0.9.
ScoreBelowOrEqual(score, pct) ==
    CASE score.kind = "nan" -> FALSE
      [] score.kind = "scaled" -> score.d.v * 100 <= pct * ScoreScale
      [] OTHER -> /\ ~ score.is_one
                  /\ ~ score.d.big
                  /\ score.d.v * (100 - pct) <= 100

ScoreBelow(score, pct) ==
    CASE score.kind = "nan" -> FALSE
      [] score.kind = "scaled" -> score.d.v * 100 < pct * ScoreScale
      [] OTHER -> /\ ~ score.is_one
                  /\ ~ score.d.big
                  /\ score.d.v * (100 - pct) < 100

\* TrustScore.level
level(score) ==
    IF ScoreBelow(score, 10) THEN "unwitnessed"
    ELSE IF ScoreBelow(score, 50) THEN "minimal"
    ELSE IF ScoreBelow(score, 75) THEN "moderate"
    ELSE IF ScoreBelow(score, 90) THEN "strong"
    ELSE "very strong"

\* The scores level is called with: what compute returns, weighted scores
\* at and next to each bucket bound, and NaN
Scores ==
    {compute(n) : n \in {m \in Counts : ~ Overflows(m)}}
      \cup {Scaled(v) : v \in {0, 99999, 100000, 499999, 500000, 749999,
                               750000, 899999, 900000, 999000}}
      \cup {NaN}

NoLevel == [score |-> NaN, level |-> "", called |-> FALSE]

trust_level(score) ==
    /\ lvRet' = [last |-> [score |-> score, level |-> level(score),
                           called |-> TRUE],
                 prev |-> lvRet.last]
    /\ UNCHANGED <<trRet, twAtts, twRet>>

TrIdle ==
    /\ trRet = [last |-> NoCall, prev |-> NoCall]
    /\ twAtts = <<>>
    /\ twRet = NoWeighted
    /\ lvRet = [last |-> NoLevel, prev |-> NoLevel]

(* ------------------------------------------------------------------ *)
(* Intention hook (hooks/intention-hook.py)                             *)
(* ------------------------------------------------------------------ *)

\* patterns[-50:]
KeepLast == 50

\* Bounds: hook runs that reach _log_frustration, and how many of them
\* meet a failing read_text or write_text.
MaxDetections == 52
MaxFaults == 1

LastN(s, n) == IF Len(s) <= n THEN s ELSE SubSeq(s, Len(s) - n + 1, Len(s))

\* PATTERNS_FILE: absent, the text json.dumps wrote for a list, or the
\* part of such a text a failed write_text left behind.
PatternsFile(kind, entries) == [kind |-> kind, entries |-> entries]

NoPatternsFile == PatternsFile("absent", <<>>)

\* What read_text and write_text do in one _log_frustration call.
\* write_text opens the file for writing, which empties it, and then
\* writes: it can raise before the file is opened or after.
FileOutcomes == {"ok", "read_raises", "write_refused", "write_torn"}

\* The exception raised inside the try block of _log_frustration, "none"
\* when the block runs to its end.
LogRaised(file, outcome) ==
    IF file.kind # "absent" /\ outcome = "read_raises" THEN "OSError"
    ELSE IF file.kind = "torn" THEN "JSONDecodeError"
    ELSE IF outcome \in {"write_refused", "write_torn"} THEN "OSError"
    ELSE "none"

\* The patterns file after _log_frustration(prompt, signal).
LogFile(file, entry, outcome) ==
    IF file.kind # "absent" /\ outcome = "read_raises" THEN file
    ELSE IF file.kind = "torn" THEN file
    ELSE IF outcome = "write_refused" THEN file
    ELSE IF outcome = "write_torn" THEN PatternsFile("torn", <<>>)
    ELSE PatternsFile("array", LastN(Append(file.entries, entry), KeepLast))

\* What stdin holds when main() runs.
RawInputs == {"empty", "blank", "not_text", "malformed", "not_object",
              "no_prompt", "blank_prompt", "prompt_not_string",
              "plain", "frustrated"}

\* build_enrichment up to its step 6: no section, some sections, or an
\* exception none of the get_* helpers catches.
EnrichOutcomes == {"none", "some", "raises"}

ReachesEnrichment(raw) == raw \in {"plain", "frustrated"}

\* detect_frustration(prompt) is called, and a signal matches.
Detects(raw, enrich) == raw = "frustrated" /\ enrich # "raises"

\* The exception the try block of main() ends with, "none" when it
\* runs to its end.
MainRaised(raw, enrich) ==
    CASE raw = "not_text" -> "Exception"
      [] raw \in {"empty", "blank"} -> "SystemExit"
      [] raw = "malformed" -> "JSONDecodeError"
      [] raw = "not_object" -> "Exception"
      [] raw \in {"no_prompt", "blank_prompt"} -> "SystemExit"
      [] raw = "prompt_not_string" -> "Exception"
      [] OTHER -> IF enrich = "raises" THEN "Exception" ELSE "none"

MainCatchesJsonOnly(exc) == exc = "JSONDecodeError"

\* except json.JSONDecodeError / except Exception
MainCatches(exc) == exc \in {"JSONDecodeError", "Exception"}

\* The exit status of the hook: sys.exit(0) inside the try block or
\* after it; an exception that is not caught ends the interpreter
\* with status 1.
ExitStatus(exc) ==
    IF exc \in {"none", "SystemExit"} \/ MainCatches(exc) THEN 0 ELSE 1

\* print(enrichment) is reached and enrichment is not empty.
EnrichmentShown(raw, enrich) ==
    /\ MainRaised(raw, enrich) = "none"
    /\ enrich = "some" \/ Detects(raw, enrich)

NoRun == [raw |-> "", enrich |-> "", outcome |-> "", status |-> 0,
          shown |-> FALSE, logRaised |-> "none", ran |-> FALSE]

\* One run of the hook: main(). An entry is named by its place among
\* the entries logged.
main(raw, enrich, outcome) ==
    LET detects == Detects(raw, enrich)
        entry == Len(hkLogged) + 1
        file == IF detects THEN LogFile(hkFile, entry, outcome) ELSE hkFile
        raised == IF detects THEN LogRaised(hkFile, outcome) ELSE "none"
        fault == detects /\ outcome # "ok"
    IN  /\ detects => hkDetections < MaxDetections
        /\ fault => hkFaults < MaxFaults
        /\ ~ReachesEnrichment(raw) => enrich = "none"
        /\ ~detects => outcome = "ok"
        /\ hkFile' = file
        /\ hkDetections' = IF detects THEN hkDetections + 1 ELSE hkDetections
        /\ hkFaults' = IF fault THEN hkFaults + 1 ELSE hkFaults
        /\ hkLogged' = IF detects /\ raised = "none"
                         THEN Append(hkLogged, entry) ELSE hkLogged
        /\ hkRet' = [raw |-> raw, enrich |-> enrich, outcome |-> outcome,
                     status |-> ExitStatus(MainRaised(raw, enrich)),
                     shown |-> EnrichmentShown(raw, enrich),
                     logRaised |-> raised, ran |-> TRUE]

HkIdle ==
    /\ hkFile = NoPatternsFile
    /\ hkDetections = 0
    /\ hkFaults = 0
    /\ hkLogged = <<>>
    /\ hkRet = NoRun

(* ------------------------------------------------------------------ *)
(* Specifications                                                       *)
(* ------------------------------------------------------------------ *)
WMIdle ==
    /\ wmDisk = FALSE
    /\ conn = FALSE
    /\ memory = << >>
    /\ rows = {}
    /\ added = {}
    /\ persistFailed = FALSE
    /\ wmCalls = 0
    /\ committed = {}
    /\ okAdds = {}
    /\ reopened = FALSE
    /\ wmRet = NoAttestation

SrvIdle ==
    /\ dag = <<>>
    /\ srvReq = [endpoint |-> "none", peer |-> 0, body |-> 0]
    /\ srvResp = NoResp
    /\ srvPosts = 0
    /\ srvAccepted = [r \in RecordIds |-> 0]

DiscIdle ==
    /\ peers = <<>>
    /\ hbRet = << >>
    /\ hbCount = 0
    /\ consec = [i \in Identities |-> 0]
    /\ discOps = 0
    /\ running = FALSE
    /\ lan = NoLan
    /\ discRet = Op("none", <<>>, {})

BrIdle ==
    /\ brDag = <<>>
    /\ lastValidatedHash = None
    /\ brInitTips = <<>>
    /\ subscribed = {}
    /\ emitted = <<>>
    /\ produced = <<>>
    /\ brCreated = 0
    /\ brEvents = 0
    /\ brRet = [type |-> "", fail |-> "none", raised |-> FALSE,
                prev |-> "none"]
    /\ brThreads = [t \in Threads |-> NotHandling]
    /\ brRestarts = <<>>

ClIdle ==
    /\ clSession = FALSE
    /\ clCalls = 0
    /\ clRet = [method |-> "none", fail |-> "none", resp |-> NoJson,
                key |-> "none", signable |-> "none", oqs |-> TRUE,
                value |-> NoReturn]

NetIdle ==
    /\ netDisk = FALSE
    /\ netDag = [n \in Nodes |-> <<>>]
    /\ netStore = [n \in Nodes |-> {}]
    /\ netResults = [n \in Nodes |-> NoResp]
    /\ netReq = NoRequest
    /\ netCalls = 0

AuxIdle == ClIdle /\ NetIdle /\ BsIdle /\ TrIdle /\ HkIdle /\ EqInit

coreVars == <<wmVars, rlVars, srvVars, discVars, brVars>>

RLIdle ==
    /\ now = 0
    /\ maxRequests = 1
    /\ window = 1
    /\ requests = [p \in PeerIps |-> <<>>]
    /\ calls = <<>>
    /\ rlRet = [op |-> "none", peer |-> 0, result |-> FALSE, at |-> 0,
                cleared |-> 0]

CoreIdle == WMIdle /\ RLIdle /\ SrvIdle /\ DiscIdle /\ BrIdle

InitWitness == WMInit /\ RLIdle /\ SrvIdle /\ DiscIdle /\ BrIdle /\ AuxIdle

NextWitness ==
    \/ \E att \in Attestations, o \in PersistOutcomes :
            add_attestation(att, o) /\ UNCHANGED <<rlVars, srvVars, discVars, brVars, auxVars>>
    \/ wm_close /\ UNCHANGED <<rlVars, srvVars, discVars, brVars, auxVars>>

SpecWitness == InitWitness /\ [][NextWitness]_vars

\* A disk-backed manager that is closed and opened again on its path;
\* a closed manager is not used any more
InitReopen == InitWitness /\ wmDisk

NextReopen ==
    \/ \E att \in Attestations, o \in PersistOutcomes :
            /\ conn
            /\ add_attestation(att, o)
            /\ UNCHANGED <<rlVars, srvVars, discVars, brVars, auxVars>>
    \/ wm_close /\ UNCHANGED <<rlVars, srvVars, discVars, brVars, auxVars>>
    \/ wm_reopen /\ UNCHANGED <<rlVars, srvVars, discVars, brVars, auxVars>>

SpecReopen == InitReopen /\ [][NextReopen]_vars

InitRate == RLInit /\ WMIdle /\ SrvIdle /\ DiscIdle /\ BrIdle /\ AuxIdle

NextRate ==
    \/ \E p \in PeerIps : allow(p) /\ UNCHANGED <<wmVars, srvVars, discVars, brVars, auxVars>>
    \/ \E p \in PeerIps : reset(p) /\ UNCHANGED <<wmVars, srvVars, discVars, brVars, auxVars>>
    \/ reset_all /\ UNCHANGED <<wmVars, srvVars, discVars, brVars, auxVars>>
    \/ Tick /\ UNCHANGED <<wmVars, srvVars, discVars, brVars, auxVars>>

SpecRate == InitRate /\ [][NextRate]_vars

\* The server under test, observed within one rate-limit window: a limiter
\* of at least one request per window, and no request old enough to expire.
InitServer ==
    /\ SrvInit
    /\ WMInit
    /\ RLInit
    /\ maxRequests >= 1
    /\ window = MaxWindow
    /\ DiscIdle
    /\ BrIdle
    /\ AuxIdle

NextServer ==
    \/ \E p \in PeerIps, b \in Bodies :
          post_records(p, b) /\ UNCHANGED <<discVars, brVars, auxVars>>
    \/ \E p \in PeerIps, b \in Bodies :
          post_witness(p, b) /\ UNCHANGED <<discVars, brVars, auxVars>>

SpecServer == InitServer /\ [][NextServer]_vars

InitDiscovery == DiscInit /\ RLIdle /\ WMIdle /\ SrvIdle /\ BrIdle /\ AuxIdle

NextDiscovery ==
    \/ \E id \in Identities :
          add_peer(id) /\ UNCHANGED <<wmVars, rlVars, srvVars, brVars, auxVars>>
    \/ \E id \in Identities :
          mdns_added(id) /\ UNCHANGED <<wmVars, rlVars, srvVars, brVars, auxVars>>
    \/ \E id \in Identities :
          mdns_removed(Prefix8(id)) /\ UNCHANGED <<wmVars, rlVars, srvVars, brVars, auxVars>>
    \/ read_peers /\ UNCHANGED <<wmVars, rlVars, srvVars, brVars, auxVars>>
    \/ \E answered \in SUBSET (PeerKeys(peers) \ {SelfIdentity}) :
          heartbeat_once(answered) /\ UNCHANGED <<wmVars, rlVars, srvVars, brVars, auxVars>>
    \/ \E file \in PeersFileContents, setup_reached \in LanSetups :
          disc_start(file, setup_reached)
          /\ UNCHANGED <<wmVars, rlVars, srvVars, brVars, auxVars>>
    \/ \E raises \in SUBSET LanCalls :
          disc_stop(raises) /\ UNCHANGED <<wmVars, rlVars, srvVars, brVars, auxVars>>
    \/ DiscTick /\ UNCHANGED <<wmVars, srvVars, discVars, brVars, auxVars>>

SpecDiscovery == InitDiscovery /\ [][NextDiscovery]_vars

InitBridge == BrInit /\ RLIdle /\ WMIdle /\ SrvIdle /\ DiscIdle /\ AuxIdle

NextBridge ==
    \/ setup /\ UNCHANGED <<wmVars, rlVars, srvVars, discVars, auxVars>>
    \/ \E type \in EventTypes, fail \in FailPoints :
          handle_event(type, fail)
          /\ UNCHANGED <<wmVars, rlVars, srvVars, discVars, auxVars>>
    \/ \E id \in RecordIds, ps \in {<<>>} \cup {<<j>> : j \in DagIds(brDag)} :
          insert_foreign(id, ps)
          /\ UNCHANGED <<wmVars, rlVars, srvVars, discVars, auxVars>>

SpecBridge == InitBridge /\ [][NextBridge]_vars

\* The bridge with events emitted on two threads
NextBridgeThreads ==
    \/ setup /\ UNCHANGED <<wmVars, rlVars, srvVars, discVars, auxVars>>
    \/ \E t \in Threads, type \in EventTypes :
          th_begin(t, type)
          /\ UNCHANGED <<wmVars, rlVars, srvVars, discVars, auxVars>>
    \/ \E t \in Threads :
          th_insert(t) /\ UNCHANGED <<wmVars, rlVars, srvVars, discVars, auxVars>>
    \/ \E t \in Threads :
          th_pointer(t) /\ UNCHANGED <<wmVars, rlVars, srvVars, discVars, auxVars>>
    \/ \E t \in Threads :
          th_emit(t) /\ UNCHANGED <<wmVars, rlVars, srvVars, discVars, auxVars>>

SpecBridgeThreads == InitBridge /\ [][NextBridgeThreads]_vars

\* The bridge as the only writer of a DAG that starts empty, with the
\* process restarted between events
InitRestart == InitBridge /\ brDag = <<>>

NextRestart ==
    \/ setup /\ UNCHANGED <<wmVars, rlVars, srvVars, discVars, auxVars>>
    \/ \E type \in EventTypes, fail \in FailPoints :
          handle_event(type, fail)
          /\ UNCHANGED <<wmVars, rlVars, srvVars, discVars, auxVars>>
    \/ restart /\ UNCHANGED <<wmVars, rlVars, srvVars, discVars, auxVars>>

SpecRestart == InitRestart /\ [][NextRestart]_vars

\* The messages and the answers that go with a failure, or with none
MessagesOf(f) == IF f = "none" THEN {""} ELSE ExcMessages(f)

AnswersOf(f) == IF f = "none" THEN JsonValues ELSE {NoJson}

\* Everything but the client
clientFrame == <<coreVars, netVars, bsVars, trVars, hkVars, eqVars>>

InitClient == ClInit /\ CoreIdle /\ NetIdle /\ BsIdle /\ TrIdle /\ HkIdle /\ EqInit

NextClient ==
    \/ \E f \in ClientFailures \cup {"none"} :
       \E m \in MessagesOf(f), r \in AnswersOf(f) :
          submit_record(f, m, r) /\ UNCHANGED clientFrame
    \/ \E f \in ClientFailures \cup {"none"} :
       \E m \in MessagesOf(f), r \in AnswersOf(f) :
          query_records(f, m, r) /\ UNCHANGED clientFrame
    \/ \E f \in ClientFailures \cup {"none"} :
       \E m \in MessagesOf(f), r \in AnswersOf(f), k \in VerifyKeys,
          g \in Signables, o \in BOOLEAN :
          request_witness(f, m, r, k, g, o) /\ UNCHANGED clientFrame
    \/ \E f \in ClientFailures \cup {"none"} :
       \E m \in MessagesOf(f), r \in AnswersOf(f) :
          get_status(f, m, r) /\ UNCHANGED clientFrame
    \/ \E f \in ClientFailures \cup {"none"} :
       \E m \in MessagesOf(f), r \in AnswersOf(f) :
          ping(f, m, r) /\ UNCHANGED clientFrame
    \/ \E f \in ClientFailures \cup {"none"} :
       \E m \in MessagesOf(f), r \in AnswersOf(f) :
          query_attestations(f, m, r) /\ UNCHANGED clientFrame
    \/ cl_close /\ UNCHANGED clientFrame

SpecClient == InitClient /\ [][NextClient]_vars

\* Everything but the testnet
testnetFrame == <<coreVars, clVars, bsVars, trVars, hkVars, eqVars>>

InitTestnet == NetInit /\ CoreIdle /\ ClIdle /\ BsIdle /\ TrIdle /\ HkIdle /\ EqInit

NextTestnet ==
    \/ \E n \in Nodes, b \in WireBodies :
          node_records(n, b) /\ UNCHANGED testnetFrame
    \/ \E n \in Nodes, b \in WireBodies, o \in PersistOutcomes :
          node_witness(n, b, o) /\ UNCHANGED testnetFrame

SpecTestnet == InitTestnet /\ [][NextTestnet]_vars

\* Everything but the bootstrap functions
bootstrapFrame == <<coreVars, clVars, netVars, trVars, hkVars, eqVars>>

InitBootstrap == BsIdle /\ CoreIdle /\ ClIdle /\ NetIdle /\ TrIdle /\ HkIdle /\ EqInit

\* One call on one set of inputs
NextBootstrap ==
    \/ /\ bsRet.op = "none"
       /\ \E c \in Configs, f \in PeersFiles, r \in RemoteLists :
             bootstrap_peers(c, f, r) /\ UNCHANGED bootstrapFrame
    \/ /\ bsRet.op = "none"
       /\ \E f \in ConfigFiles :
             load_network_config(f) /\ UNCHANGED bootstrapFrame

SpecBootstrap == InitBootstrap /\ [][NextBootstrap]_vars

\* Everything but the trust functions
trustFrame == <<coreVars, clVars, netVars, bsVars, hkVars, eqVars>>

InitTrust == TrIdle /\ CoreIdle /\ ClIdle /\ NetIdle /\ BsIdle /\ HkIdle /\ EqInit

NextTrust == \E n \in Counts : trust_compute(n) /\ UNCHANGED trustFrame

SpecTrust == InitTrust /\ [][NextTrust]_vars

NextWeighted ==
    \E i \in 1..Len(AttPool) : trust_compute_weighted(i) /\ UNCHANGED trustFrame

SpecWeighted == InitTrust /\ [][NextWeighted]_vars

NextLevel == \E score \in Scores : trust_level(score) /\ UNCHANGED trustFrame

SpecLevel == InitTrust /\ [][NextLevel]_vars

\* The intention hook, run once per prompt.
hookFrame == <<coreVars, clVars, netVars, bsVars, trVars, eqVars>>

InitHook == HkIdle /\ CoreIdle /\ ClIdle /\ NetIdle /\ BsIdle /\ TrIdle /\ EqInit

NextHook ==
    \E raw \in RawInputs, enrich \in EnrichOutcomes, outcome \in FileOutcomes :
        main(raw, enrich, outcome) /\ UNCHANGED hookFrame

SpecHook == InitHook /\ [][NextHook]_vars

\* The two WitnessManagers side by side
equivFrame == <<coreVars, clVars, netVars, bsVars, trVars, hkVars>>

InitEquiv == EqInit /\ CoreIdle /\ ClIdle /\ NetIdle /\ BsIdle /\ TrIdle /\ HkIdle

NextEquiv ==
    \E att \in EqAttestations, outcome \in PersistOutcomes :
        eq_add(att, outcome) /\ UNCHANGED equivFrame

SpecEquiv == InitEquiv /\ [][NextEquiv]_vars

(* ------------------------------------------------------------------ *)
(* Claims                                                               *)
(* ------------------------------------------------------------------ *)
\* The store was only ever used through add_attestation: close() has not
\* been called on a disk-backed manager.
NeverClosed == wmDisk => conn

WitnessesAdded(rid) == {w \in WitnessIds : <<rid, w>> \in added}

AtMostOnePerWitness ==
    \A rid \in RecordIds :
        /\ \A a, b \in get_attestations(rid) :
               a.witness_identity_hash = b.witness_identity_hash => a = b
        /\ witness_count(rid) = Cardinality(get_attestations(rid))
        /\ Cardinality({a.witness_identity_hash : a \in get_attestations(rid)})
               = witness_count(rid)

PriorCalls(peer) ==
    LET mine == SelectSeq(calls, LAMBDA c : c.peer = peer)
    IN IF mine = <<>> THEN <<>> ELSE SubSeq(mine, 1, Len(mine) - 1)

\* number of entries of s satisfying inWindow-and-accepted / inWindow
CountAcceptedIn(s, t) ==
    Len(SelectSeq(s, LAMBDA c : c.ok /\ c.at > t - window))

CountCallsIn(s, t) ==
    Len(SelectSeq(s, LAMBDA c : c.at > t - window))

\* C2: once max_requests calls of a peer were accepted at times still inside
\* the window, its next allow returns False; while fewer than max_requests
\* calls of the peer lie inside the window, allow returns True.
C2_BurstDenied ==
    rlRet.op = "allow" =>
        LET prior == PriorCalls(rlRet.peer)
        IN /\ CountAcceptedIn(prior, rlRet.at) >= maxRequests
                  => rlRet.result = FALSE
           /\ CountCallsIn(prior, rlRet.at) < maxRequests
                  => rlRet.result = TRUE

\* The call after max_requests accepted ones in the window was denied.
C2_Witness ==
    /\ rlRet.op = "allow" /\ rlRet.result = FALSE
    /\ maxRequests = 2 /\ window = 2
    /\ CountAcceptedIn(PriorCalls(rlRet.peer), rlRet.at) = 2

\* C3: with max_requests >= 1, allow returns True whenever fewer than
\* max_requests of the peer's accepted timestamps are newer than
\* now - window_seconds; in particular a call made window_seconds or more
\* after the peer's last accepted call is accepted.
C3_AcceptedAgain ==
    (rlRet.op = "allow" /\ maxRequests >= 1) =>
        LET prior == PriorCalls(rlRet.peer)
        IN /\ CountAcceptedIn(prior, rlRet.at) < maxRequests
                  => rlRet.result = TRUE
           /\ (\A i \in 1..Len(prior) :
                   prior[i].ok => rlRet.at - prior[i].at >= window)
                  => rlRet.result = TRUE

\* A peer that was denied is accepted once the window has elapsed.
C3_Witness ==
    /\ rlRet.op = "allow" /\ rlRet.result = TRUE /\ window >= 1
    /\ LET prior == PriorCalls(rlRet.peer)
       IN /\ \E i \in 1..Len(prior) : ~ prior[i].ok
          /\ \A i \in 1..Len(prior) :
                 prior[i].ok => rlRet.at - prior[i].at >= window
\* Requests of a peer that the limiter still holds inside the window
InWindow(peer) ==
    Len(SelectSeq(requests[peer], LAMBDA t : t > now - window))

IsPost == srvPosts' = srvPosts + 1

\* C4: on POST /records and POST /witness the rate limiter is consulted
\* before the body is looked at: when the peer already has max_requests
\* requests inside the window the answer is 429 {"error": "rate limited"},
\* whatever the body, and neither the DAG nor the witness store changes.
C4_RateLimitedFirst ==
    [][(IsPost /\ InWindow(srvReq'.peer) >= maxRequests) =>
          /\ srvResp' = ErrorResp(429, "rate limited")
          /\ dag' = dag
          /\ rows' = rows
          /\ memory' = memory]_vars

\* With max_requests = 1 the second submission of a valid record by the
\* same peer was answered "rate limited" and stored nothing more.
C4_Witness ==
    /\ maxRequests = 1 /\ srvPosts = 2
    /\ Len(requests[srvReq.peer]) = 1
    /\ srvReq.endpoint = "/records"
    /\ srvReq.body.kind = "record" /\ srvReq.body.sig_ok
    /\ srvResp.status = 429 /\ srvResp.error = "rate limited"
    /\ DagIds(dag) = {srvReq.body.id}

\* C5: an admitted POST /records of a validly signed record whose id is
\* already in the DAG answers {accepted: true, record_id} and leaves the
\* DAG's records and record count unchanged; a record id is stored once
\* however often it is submitted.
C5_DuplicateIdempotent ==
    [][(/\ IsPost
        /\ srvReq'.endpoint = "/records"
        /\ srvReq'.body.kind = "record" /\ srvReq'.body.sig_ok
        /\ srvResp'.status # 429) =>
          /\ srvResp'.accepted /\ srvResp'.record_id = srvReq'.body.id
          /\ srvReq'.body.id \in DagIds(dag')
          /\ total_records(dag') = Cardinality(DagIds(dag'))
          /\ srvReq'.body.id \in DagIds(dag) =>
                 (dag' = dag /\ total_records(dag') = total_records(dag))
          /\ \A r \in RecordIds :
                 srvAccepted'[r] >= 1 =>
                     Len(SelectSeq(dag', LAMBDA x : x.id = r)) = 1]_vars

\* The same record was submitted and accepted three times and is stored once.
C5_Witness ==
    /\ srvAccepted[1] = 3
    /\ srvReq.endpoint = "/records" /\ srvResp.accepted
    /\ srvResp.record_id = 1
    /\ total_records(dag) = 1 /\ DagIds(dag) = {1}
IsHeartbeat == hbCount' = hbCount + 1

\* C6: heartbeat_once pings every peer but the node itself; a failed ping
\* increments the peer's heartbeat_failures; the first failure of a peer
\* leaves its state as it was, and after two consecutive failures the peer
\* is STALE with heartbeat_failures >= 2.
C6_StaleAfterTwoFailures ==
    [][/\ IsHeartbeat =>
            /\ DOMAIN hbRet' = PeerKeys(peers) \ {SelfIdentity}
            /\ \A id \in DOMAIN hbRet' :
                 ~ hbRet'[id].ok =>
                    /\ PeerOf(peers', id).heartbeat_failures
                          = PeerOf(peers, id).heartbeat_failures + 1
                    /\ consec'[id] = 1 =>
                          PeerOf(peers', id).state = PeerOf(peers, id).state
       /\ \A id \in PeerKeys(peers') :
             consec'[id] >= 2 =>
                /\ PeerOf(peers', id).state = "stale"
                /\ PeerOf(peers', id).heartbeat_failures >= 2]_vars

\* A peer added as DISCOVERED whose ping failed in two heartbeats in a row.
C6_Witness ==
    /\ hbCount = 2
    /\ 1 \in DOMAIN hbRet /\ ~ hbRet[1].ok /\ hbRet[1].was = "discovered"
    /\ consec[1] = 2
    /\ PeerOf(peers, 1).state = "stale"
    /\ PeerOf(peers, 1).heartbeat_failures = 2

IsHandle == brEvents' = brEvents + 1

\* The record the bridge chains to before it has produced one itself
InitTip == IF brInitTips = <<>> THEN None ELSE brInitTips[Len(brInitTips)]

\* The id of the last record the bridge inserted, the initial tip before that
LastInserted ==
    IF produced = <<>> THEN InitTip ELSE produced[Len(produced)].id

\* C8: events handled one at a time, every record the bridge produces has
\* as its only parent the record the bridge produced immediately before it;
\* the first one has the DAG tip read at initialization as its parent, or no
\* parent when the DAG was empty. The bridge's records are stored in the DAG,
\* have at most one parent each and no two of them share a parent.
C8_LinearChain ==
    /\ \A i \in 1..Len(produced) :
          /\ produced[i].parents =
                IF i > 1 THEN <<produced[i - 1].id>>
                ELSE IF InitTip = None THEN <<>> ELSE <<InitTip>>
          /\ Len(produced[i].parents) <= 1
          /\ \E k \in 1..Len(brDag) : brDag[k] = produced[i]
    /\ \A i, j \in 1..Len(produced) :
          (i # j /\ produced[i].parents # <<>>) =>
              produced[i].parents # produced[j].parents

\* Three records chained behind the last of two tips found at initialization.
C8_Witness ==
    /\ Len(brInitTips) = 2
    /\ Len(produced) = 3
    /\ produced[1].parents = <<brInitTips[2]>>
    /\ produced[3].parents = <<produced[2].id>>
    /\ lastValidatedHash = produced[3].id

\* C9: last_validated_hash changes only in a step that inserts a new record
\* into the DAG, and then to that record's id; when content building,
\* metadata building, record creation, signing or the insert raises, the
\* pointer, the DAG and the emitted events stay as they were; the next
\* record chains to the last record the bridge inserted.
C9_PointerAfterInsert ==
    [][/\ lastValidatedHash' # lastValidatedHash =>
             /\ Len(brDag') = Len(brDag) + 1
             /\ brDag'[Len(brDag')].id = lastValidatedHash'
             /\ lastValidatedHash' \notin DagIds(brDag)
             /\ produced' = Append(produced, brDag'[Len(brDag')])
       /\ (IsHandle /\ brRet'.fail \in
               {"content", "metadata", "create", "sign", "insert"}) =>
             /\ lastValidatedHash' = lastValidatedHash
             /\ brDag' = brDag
             /\ emitted' = emitted
       /\ lastValidatedHash = LastInserted
       /\ (IsHandle /\ produced' # produced) =>
             produced'[Len(produced')].parents = Parents(LastInserted)]_vars

\* An insert failed, and the next event produced a record chained to the one
\* inserted before the failure.
C9_Witness ==
    /\ brRet.prev = "insert" /\ brRet.fail = "none"
    /\ Len(produced) = 2
    /\ produced[2].parents = <<produced[1].id>>
    /\ lastValidatedHash = produced[2].id
    /\ Len(emitted) = 2

\* C10: _handle_event raises nothing to its caller whatever step fails, the
\* subscriptions are untouched by handling an event, and a creation event
\* handled without failure yields one record and one emission whatever
\* happened to the events before it.
C10_NeverPropagates ==
    [][IsHandle =>
          /\ ~ brRet'.raised
          /\ subscribed' = subscribed
          /\ (brRet'.fail = "none"
                /\ brRet'.type \in DOMAIN get_validated_events) =>
                /\ Len(produced') = Len(produced) + 1
                /\ Len(emitted') = Len(emitted) + 1
                /\ lastValidatedHash' = produced'[Len(produced')].id]_vars

\* The emission of one event raised and the next event was validated.
C10_Witness ==
    /\ brRet.prev = "emit" /\ brRet.fail = "none"
    /\ brRet.type = "MODEL_CREATED"
    /\ ~ brRet.raised
    /\ subscribed = DOMAIN get_validated_events
    /\ Len(produced) = 2 /\ Len(emitted) = 2
\* C11 as stated: on a transport failure every method returns, and what it
\* returns is an {error: ...} map, None for ping.
C11_Original ==
    clRet.fail \in TransportFailures =>
        /\ clRet.value.kind # "raise"
        /\ clRet.value.kind = IF clRet.method = "ping" THEN "None" ELSE "error"

\* C11: on every transport failure, and on an answer that is no JSON object,
\* every method returns and raises nothing; a transport failure is reported
\* as {error: str(e)} by submit_record, request_witness and get_status, as
\* an empty list by query_records and query_attestations, and as None by
\* ping.
C11_FailureReturned ==
    /\ clRet.fail # "no_aiohttp" => clRet.value.kind # "raise"
    /\ clRet.fail \in TransportFailures =>
          \/ /\ clRet.method \in
                   {"submit_record", "request_witness", "get_status"}
             /\ clRet.value.kind = "error"
             /\ clRet.value.error \in ExcMessages(clRet.fail)
          \/ /\ clRet.method \in {"query_records", "query_attestations"}
             /\ clRet.value = ListResult(<<>>)
          \/ /\ clRet.method = "ping"
             /\ clRet.value = NoneResult

\* query_records met a refused connection and returned an empty list.
C11_Witness ==
    /\ clRet.method = "query_records"
    /\ clRet.fail = "refused"
    /\ clRet.value = ListResult(<<>>)

\* C12 as stated: a call that exceeds its total timeout returns the map
\* {error: "timeout"}.
C12_Original ==
    clRet.fail = "timeout" => clRet.value = ErrorMap("timeout")

IsNodeWitness ==
    /\ netCalls' = netCalls + 1
    /\ netReq'.endpoint = "/witness"
    /\ netReq'.body.sig_ok

\* The attestations node n holds for a record under its own identity
OwnAttestations(store, n, rid) ==
    {a \in store[n] : /\ a.record_id = rid
                       /\ a.witness_identity_hash = identity_hash(n)}

\* The nodes whose last witness answer was for record rid
WitnessedBy(results, rid) ==
    {n \in Nodes : results[n].status = 200 /\ results[n].record_id = rid}

Admitted == srvResp'.status # 429

\* Neither the DAG nor the witness store changes
StoresNothing ==
    /\ dag' = dag
    /\ rows' = rows
    /\ memory' = memory
    /\ srvAccepted' = srvAccepted

\* C15: an admitted POST /records or POST /witness whose body cannot be
\* parsed as a record, or whose record has a creator signature that does
\* not verify, is answered with HTTP 500 and a JSON {error}, and stores
\* nothing: no record is inserted into the DAG and no attestation is added.
C15_RejectedStoresNothing ==
    [][(/\ IsPost /\ Admitted
        /\ \/ srvReq'.body.kind = "garbage"
           \/ srvReq'.body.kind = "record" /\ ~ srvReq'.body.sig_ok) =>
          /\ srvResp'.status = 500
          /\ srvResp'.error # ""
          /\ ~ srvResp'.accepted
          /\ srvResp'.witness = 0 /\ srvResp'.signature = ""
          /\ StoresNothing]_vars

\* Record 1 is stored; a copy of it whose signature does not verify was
\* then posted and rejected, and the DAG still holds the one record.
C15_Witness ==
    /\ srvReq.endpoint = "/records"
    /\ srvReq.body.kind = "record" /\ ~ srvReq.body.sig_ok
    /\ srvResp.status = 500
    /\ srvAccepted[1] = 1
    /\ DagIds(dag) = {1} /\ total_records(dag) = 1

\* C16: an admitted POST /records or POST /witness with an empty body is
\* answered with HTTP 400 and a JSON body containing 'error', and creates
\* no record and no attestation.
C16_EmptyBody400 ==
    [][(IsPost /\ Admitted /\ srvReq'.body.kind = "empty") =>
          /\ srvResp'.status = 400
          /\ srvResp'.error # ""
          /\ ~ srvResp'.accepted
          /\ srvResp'.witness = 0 /\ srvResp'.signature = ""
          /\ StoresNothing]_vars

\* An empty body was posted to /witness after the server had witnessed
\* record 1: the answer is 400 and the store holds the one attestation.
C16_Witness ==
    /\ srvReq.endpoint = "/witness"
    /\ srvReq.body.kind = "empty"
    /\ srvResp.status = 400 /\ srvResp.error = "empty body"
    /\ witness_count(1) = 1
    /\ dag = <<>>

IsReopen == ~ conn /\ conn'

\* The rows of a table for one (record_id, witness) pair
RowsFor(tbl, k) ==
    {a \in tbl : a.record_id = k[1] /\ a.witness_identity_hash = k[2]}

\* The witnesses of a record among a set of (record_id, witness) pairs
WitnessesIn(pairs, rid) == {w \in WitnessIds : <<rid, w>> \in pairs}

KnownKeys(r) ==
    {HostPort(e) : e \in {x \in SeqRange(IF r.config.has_seeds
                                          THEN r.config.seed_nodes
                                          ELSE DEFAULT_SEEDS) : Usable(x)}}
      \cup (IF r.file.state = "object"
            THEN {HostPort(e) : e \in {x \in SeqRange(r.file.peers) :
                                          Usable(x)}}
            ELSE {})

FromRemote(peer) == peer.identity_hash[1] = "github"

\* C18: bootstrap_peers consults the remote (GitHub) peer list only when
\* the seed nodes and the peers file together gave no peer; with at least
\* one seed or file peer no fetch is made and no returned peer comes from
\* the remote list; a fetch that fails gives no peers and raises nothing.
C18_FallbackOnlyWhenEmpty ==
    bsRet.op = "bootstrap_peers" =>
        /\ bsRet.fetched => (KnownKeys(bsRet) = {} /\ ~ bsRet.raised)
        /\ KnownKeys(bsRet) # {} =>
               /\ ~ bsRet.fetched
               /\ \A i \in 1..Len(bsRet.peers) : ~ FromRemote(bsRet.peers[i])
               /\ bsRet.raised \/ SeenKeys(bsRet.peers) = KnownKeys(bsRet)
        /\ (bsRet.fetched /\ bsRet.remote.state # "object") =>
               (bsRet.peers = <<>> /\ ~ bsRet.raised)
        /\ (KnownKeys(bsRet) = {} /\ ~ bsRet.raised) => bsRet.fetched

\* No seeds are configured and the peers file is unreadable: the remote
\* list was fetched and its one usable node is the result.
C18_Witness ==
    /\ bsRet.op = "bootstrap_peers"
    /\ bsRet.config.has_seeds /\ bsRet.config.seed_nodes = <<>>
    /\ bsRet.file.state = "unreadable"
    /\ bsRet.fetched
    /\ Len(bsRet.peers) = 1 /\ FromRemote(bsRet.peers[1])

\* C19 as the specification states it: for every state of the config file
\* load_network_config returns a mapping that has all of enabled,
\* node_type, port and seed_nodes, the missing ones from the defaults and
\* the present ones kept, and never raises.
C19_Original ==
    bsRet.op = "load_network_config" =>
        /\ ~ bsRet.raised
        /\ bsRet.loaded.kind = "map"
        /\ \A k \in ConfigKeys :
               bsRet.loaded.value[k] =
                   IF k \in bsRet.cfile.has THEN "file" ELSE "default"

\* n1 <= n2 for two witness counts
CountAtMost(n1, n2) == ~ Below(n2, n1)

\* C20 as the specification states it: for every witness count n >= 0
\* compute(n) = 1 - 1/(1+n) lies in [0, 1), compute(0) = 0,
\* compute(1) = 0.5, compute(3) = 0.75, the result is monotone
\* non-decreasing in n, and for n < 0 the result is 0.
C20_Original ==
    LET n == trRet.last.n
        r == trRet.last.value
        m == trRet.prev.n
        q == trRet.prev.value
    IN trRet.last.called =>
          /\ Negative(n) => r = Zero
          /\ ~ Negative(n) =>
                 /\ r.kind = "float"
                 /\ ~ r.is_one
                 /\ AtMost(Zero, r)
                 /\ r = OneMinusInverse(OnePlus(n))
          /\ n = Small(0) => r = Zero
          /\ n = Small(1) => r = OneMinusInverse(Small(2))
          /\ n = Small(3) => r = OneMinusInverse(Small(4))
          /\ (/\ trRet.prev.called /\ ~ Negative(m) /\ ~ Negative(n)
              /\ CountAtMost(m, n)) => AtMost(q, r)

(* ------------------------------------------------------------------ *)
(* C21, C22: weighted trust score and trust level                       *)
(* ------------------------------------------------------------------ *)
\* the cap 0.999, in millionths
MaxWeighted == 999 * (ScoreScale \div 1000)

\* C21: TrustScore.compute_weighted returns a score in [0, 0.999], so
\* strictly less than 1.0, for every attestation list, 0.0 for the empty
\* list, and adding one attestation with strictly positive weight to a
\* list never lowers the score.
C21_WeightedBoundedMonotone ==
    twRet.called =>
        /\ 0 <= twRet.score /\ twRet.score <= MaxWeighted
        /\ 0 <= twRet.before /\ twRet.before <= MaxWeighted
        /\ twRet.score < ScoreScale
        /\ Len(twAtts) = 1 => twRet.before = 0
        /\ Weight(AttPool[twRet.added]) > 0 => twRet.before <= twRet.score

\* An attestation of positive weight raised the score of a non-empty list
\* up to the cap.
C21_Witness ==
    /\ twRet.called
    /\ Len(twAtts) > 1
    /\ Weight(AttPool[twRet.added]) > 0
    /\ twRet.before < twRet.score
    /\ twRet.score = MaxWeighted
    /\ Base(TotalWeight(twAtts)) + DiversityBonus(Prefixes(twAtts))
          > ScoreScale

\* the order of the levels
LevelRank(l) ==
    CASE l = "unwitnessed" -> 0
      [] l = "minimal" -> 1
      [] l = "moderate" -> 2
      [] l = "strong" -> 3
      [] l = "very strong" -> 4

\* s1 <= s2 for two doubles given as 1 - 1/d, 1.0 or a number of
\* millionths (at most one million); false when either is NaN
ScoreAtMost(s1, s2) ==
    LET exact(s) == s.kind = "scaled" \/ (~ s.is_one /\ ~ s.d.big)
        num(s) == IF s.kind = "scaled" THEN s.d.v ELSE s.d.v - 1
        den(s) == IF s.kind = "scaled" THEN ScoreScale ELSE s.d.v
    IN /\ s1.kind # "nan" /\ s2.kind # "nan"
       /\ \/ /\ s1.kind = "scaled" /\ s2.kind = "scaled"
             /\ s1.d.v <= s2.d.v
          \/ /\ exact(s1) /\ exact(s2)
             /\ s1.kind # "scaled" \/ s2.kind # "scaled"
             /\ num(s1) * den(s2) <= num(s2) * den(s1)
          \/ exact(s1) /\ ~ exact(s2)
          \/ ~ exact(s1) /\ ~ exact(s2) /\ AtMost(s1, s2)

\* C22: TrustScore.level gives every score one of the five levels, with
\* score < 0.1 unwitnessed, < 0.5 minimal, < 0.75 moderate, < 0.9 strong,
\* otherwise very strong; it is monotone in the score, and the lower bound
\* of each bucket is inclusive: level(compute(1)) is moderate and
\* level(compute(3)) is strong.
C22_LevelBuckets ==
    LET s == lvRet.last.score
        l == lvRet.last.level
    IN lvRet.last.called =>
        /\ l \in {"unwitnessed", "minimal", "moderate", "strong",
                  "very strong"}
        /\ l = "unwitnessed" <=> ScoreBelow(s, 10)
        /\ l = "minimal" <=> ~ ScoreBelow(s, 10) /\ ScoreBelow(s, 50)
        /\ l = "moderate" <=> ~ ScoreBelow(s, 50) /\ ScoreBelow(s, 75)
        /\ l = "strong" <=> ~ ScoreBelow(s, 75) /\ ScoreBelow(s, 90)
        /\ (lvRet.prev.called /\ ScoreAtMost(lvRet.prev.score, s)) =>
               LevelRank(lvRet.prev.level) <= LevelRank(l)
        /\ s = Scaled(100000) => l = "minimal"
        /\ s = compute(Small(1)) => l = "moderate"
        /\ s = Scaled(500000) => l = "moderate"
        /\ s = compute(Small(3)) => l = "strong"
        /\ s = Scaled(750000) => l = "strong"
        /\ s = Scaled(900000) => l = "very strong"

\* level(compute(1)) was called and then level(compute(3)).
C22_Witness ==
    /\ lvRet.prev.called /\ lvRet.last.called
    /\ lvRet.prev.score = compute(Small(1)) /\ lvRet.prev.level = "moderate"
    /\ lvRet.last.score = compute(Small(3)) /\ lvRet.last.level = "strong"

(* ------------------------------------------------------------------ *)
(* C29: unmapped events                                                 *)
(* ------------------------------------------------------------------ *)
\* The ten creation events of the allowlist
CreationEvents ==
    {"MODEL_CREATED", "PREDICTION_MADE", "PRINCIPLE_CRYSTALLIZED",
     "WORKFLOW_CREATED", "CORRECTION_ADDED", "DREAM_COMPLETED",
     "EPISODE_ENDED", "HANDOFF_SAVED", "SYNTHESIS_CREATED",
     "OUTCOME_RECORDED"}

\* C29: for an event whose type is not one of the ten allowlisted creation
\* events, _handle_event creates no record, leaves the DAG and
\* last_validated_hash unchanged, and emits nothing.
C29_UnmappedIgnored ==
    [][(IsHandle /\ brRet'.type \notin CreationEvents) =>
          /\ brCreated' = brCreated
          /\ produced' = produced
          /\ brDag' = brDag
          /\ lastValidatedHash' = lastValidatedHash
          /\ emitted' = emitted
          /\ ~ brRet'.raised]_vars

\* After the bridge validated a creation event, its own ARTIFACT_VALIDATED
\* was handed to the handler.
C29_Witness ==
    /\ brRet.type = "ARTIFACT_VALIDATED"
    /\ brEvents = 2
    /\ Len(produced) = 1 /\ Len(emitted) = 1
    /\ lastValidatedHash = produced[1].id
    /\ Cardinality(CreationEvents) = 10
    /\ DOMAIN get_validated_events = CreationEvents

(* ------------------------------------------------------------------ *)
(* C26, C27: the limiter's windows are per peer                         *)
(* ------------------------------------------------------------------ *)
\* the times a later call can be made at
LaterTimes == now..MaxTime

\* C26: limits are per peer. A call (allow or reset, accepted or denied)
\* for a peer q leaves the stored window of every other peer p and the
\* answer p would get at any later time as they were, and the result of
\* allow(p) is decided by p's own calls since its last reset: it is True
\* iff fewer than max_requests of them were accepted inside the window.
C26_PerPeer ==
    [][/\ \A p \in PeerIps :
             (now' = now /\ rlRet'.peer # p /\ rlRet'.peer # 0) =>
                 /\ requests'[p] = requests[p]
                 /\ \A t \in LaterTimes :
                        AllowResult(requests', p, t)
                            = AllowResult(requests, p, t)
       /\ (rlRet'.op = "allow" /\ Len(calls') = Len(calls) + 1) =>
             (rlRet'.result <=>
                 CountAcceptedIn(SelectSeq(calls, LAMBDA c : c.peer = rlRet'.peer),
                                 rlRet'.at) < maxRequests)]_vars

\* A peer is at its limit and was denied, and a call of another peer at the
\* same time was accepted.
C26_Witness ==
    /\ rlRet.op = "allow" /\ rlRet.result /\ rlRet.peer = 2
    /\ maxRequests = 1
    /\ \E i \in 1..Len(calls) :
          calls[i].peer = 1 /\ ~ calls[i].ok /\ calls[i].at = rlRet.at
    /\ ~ AllowResult(requests, 1, now)

\* C27: reset(peer_ip) clears exactly that peer's window, so that with
\* max_requests >= 1 its next allow is accepted, and leaves every other
\* peer's window unchanged; reset() with no peer clears the windows of all
\* peers.
C27_ResetOnePeer ==
    [][(now' = now /\ rlRet'.op = "reset") =>
          IF rlRet'.peer # 0
          THEN /\ requests'[rlRet'.peer] = <<>>
               /\ \A q \in PeerIps \ {rlRet'.peer} :
                      requests'[q] = requests[q]
               /\ maxRequests >= 1 =>
                      \A t \in LaterTimes :
                          AllowResult(requests', rlRet'.peer, t)
          ELSE \A p \in PeerIps : requests'[p] = <<>>]_vars

\* Two peers were at their limit; one was reset and is accepted again while
\* the other is still denied.
C27_Witness ==
    /\ rlRet.op = "reset" /\ rlRet.peer = 1 /\ rlRet.cleared >= 1
    /\ maxRequests >= 1
    /\ requests[1] = <<>> /\ AllowResult(requests, 1, now)
    /\ requests[2] # <<>> /\ ~ AllowResult(requests, 2, now)

(* ------------------------------------------------------------------ *)
(* C28: adding a stored pair again                                      *)
(* ------------------------------------------------------------------ *)
IsAdd == wmCalls' = wmCalls + 1

\* (record_id, witness_identity_hash) of att is stored
Present(att) ==
    \E a \in get_attestations(att.record_id) :
        a.witness_identity_hash = att.witness_identity_hash

\* C28: add_attestation is a no-op when (record_id, witness_identity_hash)
\* is already present: the attestation stored first keeps its signature and
\* timestamp, and get_attestations, witness_count and stats return after
\* the call what they returned before it.
C28_DuplicateNoOp ==
    [][\A att \in Attestations :
          (IsAdd /\ wmRet' = att /\ Present(att)) =>
              /\ \A rid \in RecordIds :
                    /\ get_attestations(rid)' = get_attestations(rid)
                    /\ witness_count(rid)' = witness_count(rid)
              /\ wm_stats' = wm_stats
              /\ \A a \in get_attestations(att.record_id) :
                    a.witness_identity_hash = att.witness_identity_hash =>
                        a \in get_attestations(att.record_id)']_vars

\* A disk-backed store was offered a second attestation of the same witness
\* for the same record, with another signature and timestamp, and still
\* holds the first.
C28_Witness ==
    /\ wmDisk /\ conn /\ wmCalls = 2 /\ ~ persistFailed
    /\ added = {<<1, 1>>}
    /\ wmRet = WitnessAttestation(1, 1, "sigB", 200)
    /\ get_attestations(1) = {WitnessAttestation(1, 1, "sigA", 100)}
    /\ wm_stats = [records_witnessed |-> 1, total_attestations |-> 1]

(* ------------------------------------------------------------------ *)
(* C23, C24, C25, C30: the peer table and the discovery life cycle      *)
(* ------------------------------------------------------------------ *)
\* the step is one discovery operation of the given name
IsDiscOp(op) == discOps' = discOps + 1 /\ discRet'.op = op

\* C23: every peer returned by a scan at time now whose last_seen is more
\* than STALE_TIMEOUT (120 s) before now has state STALE when returned; a
\* peer whose last_seen is within the timeout keeps the state it had before
\* the scan. The scan returns every peer of the table, with its last_seen
\* and failure count untouched.
C23_ScanMarksStale ==
    [][IsDiscOp("peers") =>
          /\ Len(peers') = Len(peers)
          /\ \A i \in 1..Len(peers) :
                /\ peers'[i].identity_hash = peers[i].identity_hash
                /\ peers'[i].last_seen = peers[i].last_seen
                /\ peers'[i].heartbeat_failures = peers[i].heartbeat_failures
                /\ now - peers[i].last_seen > 120 =>
                       peers'[i].state = "stale"
                /\ now - peers[i].last_seen <= 120 =>
                       peers'[i].state = peers[i].state]_vars

\* A scan returned one peer seen 240 s ago as STALE and one seen exactly
\* 120 s ago as it was.
C23_Witness ==
    /\ discRet.op = "peers"
    /\ \E i, j \in 1..Len(peers) :
          /\ now - peers[i].last_seen = 240 /\ peers[i].state = "stale"
          /\ peers[i].heartbeat_failures = 0
          /\ now - peers[j].last_seen = 120 /\ peers[j].state = "discovered"

\* C24 as the specification states it: after any sequence of peers-file
\* loading, mDNS Added callbacks and add_peer calls, no peer returned by
\* peers has identity_hash equal to the node's own identity_hash.
C24_Original ==
    SelfIdentity \notin PeerKeys(ScanPeers(peers, now))

\* C25: no discovery operation removes a peer: whatever start, stop, scan,
\* mDNS Added or Removed callback, add_peer or heartbeat is performed,
\* every identity in the peer table is still in it afterwards; a lost or
\* silent peer becomes STALE.
C25_NeverRemoved ==
    [][/\ PeerKeys(peers) \subseteq PeerKeys(peers')
       /\ Len(peers') >= Len(peers)
       /\ (IsDiscOp("removed") /\ discRet'.emitted # <<>>) =>
             \E i \in 1..Len(peers) :
                 /\ peers'[i].state = "stale"
                 /\ peers'[i].identity_hash = peers[i].identity_hash]_vars

\* A peer loaded from the peers file by start() was reported lost on the
\* LAN and discovery was stopped: the peer is in the table, STALE.
C25_Witness ==
    /\ discRet.op = "stop" /\ discRet.emitted = <<"NETWORK_STOPPED">>
    /\ ~ running
    /\ discOps = 3
    /\ Len(peers) = 1 /\ peers[1].identity_hash = 1
    /\ peers[1].state = "stale" /\ peers[1].heartbeat_failures = 0

\* C30: stop() on a running discovery always completes: even if the LAN
\* service unregistration or the close raises, afterwards running is false,
\* the zeroconf, browser and service info handles are cleared and
\* NETWORK_STOPPED is emitted once; stop() on a discovery that is not
\* running changes nothing and emits nothing.
C30_StopCompletes ==
    [][IsDiscOp("stop") =>
          /\ running =>
                /\ ~ running'
                /\ lan' = NoLan
                /\ discRet'.emitted = <<"NETWORK_STOPPED">>
          /\ ~ running =>
                /\ UNCHANGED <<running, lan>>
                /\ discRet'.emitted = <<>>
          /\ UNCHANGED <<peers, hbRet, hbCount, consec>>]_vars

\* Discovery was started with a registered service, and both the
\* unregistration and the close raised when it was stopped.
C30_Witness ==
    /\ discRet.op = "stop"
    /\ discRet.raised = {"unregister_service", "close"}
    /\ discRet.emitted = <<"NETWORK_STOPPED">>
    /\ ~ running /\ lan = NoLan

(* ------------------------------------------------------------------ *)
(* Intention hook: claims                                               *)
(* ------------------------------------------------------------------ *)

\* C31: once a frustration has been detected, the patterns file holds a
\* JSON array of at most 50 entries, and they are the most recently
\* logged entries, oldest first.
C31_Original ==
    hkDetections > 0 =>
        /\ hkFile.kind = "array"
        /\ Len(hkFile.entries) <= KeepLast
        /\ hkFile.entries = LastN(hkLogged, KeepLast)

\* C32: every run of the hook ends with exit status 0, whatever stdin
\* holds and whatever fails inside enrichment or frustration logging,
\* and enrichment is written to stdout only by a run that read a prompt
\* and built its enrichment without an exception.
C32_NeverBlocks ==
    hkRet.ran =>
        /\ hkRet.status = 0
        /\ hkRet.shown =>
              /\ ReachesEnrichment(hkRet.raw)
              /\ hkRet.enrich # "raises"

C32_Witness ==
    /\ hkRet.ran
    /\ hkRet.logRaised # "none"
    /\ hkRet.shown
    /\ hkRet.status = 0

Max0(n) == IF n > 0 THEN n ELSE 0

\* C38: after any calls of allow and reset every peer holds at most
\* max(max_requests, 0) timestamps; a denied allow stores no timestamp,
\* it only drops the expired ones of its peer, and the answer the peer
\* gets at any later time is the same as if the denied call had not been
\* made.
C38_StateBound ==
    [][/\ \A p \in PeerIps : Len(requests'[p]) <= Max0(maxRequests)
       /\ (rlRet'.op = "allow" /\ Len(calls') = Len(calls) + 1
              /\ ~ rlRet'.result) =>
             /\ requests'[rlRet'.peer]
                    = Prune(requests[rlRet'.peer], now - window)
             /\ \A t \in LaterTimes :
                    AllowResult(requests', rlRet'.peer, t)
                        = AllowResult(requests, rlRet'.peer, t)]_vars

\* A peer at a limit of two was denied while holding two timestamps, one
\* of them older than the call.
C38_Witness ==
    /\ rlRet.op = "allow" /\ ~ rlRet.result /\ rlRet.at = now
    /\ maxRequests = 2
    /\ Len(requests[rlRet.peer]) = 2
    /\ requests[rlRet.peer][1] < now

SeedsOf(r) == resolve_seed_peers(r.config)

\* C39: the list bootstrap_peers returns holds no two peers with the
\* same host:port and no peer with an empty host or port 0, and a peer
\* whose host:port is that of a seed node is the seed's entry, also
\* when the peers file has an entry with the same host:port.
C39_Deduplicated ==
    (bsRet.op = "bootstrap_peers" /\ ~ bsRet.raised) =>
        /\ \A i, j \in 1..Len(bsRet.peers) :
               HostPort(bsRet.peers[i]) = HostPort(bsRet.peers[j]) => i = j
        /\ \A i \in 1..Len(bsRet.peers) :
               bsRet.peers[i].host # "" /\ bsRet.peers[i].port # 0
        /\ \A i \in 1..Len(bsRet.peers) :
               HostPort(bsRet.peers[i]) \in SeenKeys(SeedsOf(bsRet)) =>
                   bsRet.peers[i] \in SeqRange(SeedsOf(bsRet))

\* Two seeds, one with an empty host, and a peers file that repeats the
\* usable seed's host:port and adds an entry with port 0: one peer is
\* returned.
C39_Witness ==
    /\ bsRet.op = "bootstrap_peers" /\ ~ bsRet.raised
    /\ bsRet.config.has_seeds /\ Len(bsRet.config.seed_nodes) = 2
    /\ \E i \in 1..2 : bsRet.config.seed_nodes[i].host = ""
    /\ bsRet.file.state = "object" /\ Len(bsRet.file.peers) = 2
    /\ \E i \in 1..2 : bsRet.file.peers[i].port = 0
    /\ \E i \in 1..2 : /\ Usable(bsRet.file.peers[i])
                       /\ HostPort(bsRet.file.peers[i])
                              \in SeenKeys(SeedsOf(bsRet))
    /\ Len(bsRet.peers) = 1

(* ------------------------------------------------------------------ *)
(* L1Bridge: concurrency, emission order, restart                       *)
(* ------------------------------------------------------------------ *)

Quiescent == \A t \in Threads : brThreads[t].pc = "idle"

\* The bridge's records no other record of the bridge names as a parent
Unreferenced ==
    {produced[i].id : i \in 1..Len(produced)}
        \ {produced[j].parents[1] :
              j \in {k \in 1..Len(produced) : produced[k].parents # <<>>}}

\* C33: once the events handled on the two threads are done, the
\* records of the bridge form one chain: no two of them have the same
\* parent (or both none), and last_validated_hash is the id of the one
\* record of the bridge that no other record of the bridge points to.
C33_Original ==
    (Quiescent /\ produced # <<>>) =>
        /\ \A i, j \in 1..Len(produced) :
               produced[i].parents = produced[j].parents => i = j
        /\ Unreferenced = {lastValidatedHash}

LastProduced == IF produced = <<>> THEN None ELSE produced[Len(produced)].id

\* C35: over a DAG that holds only records of earlier bridge instances,
\* a newly constructed bridge starts with last_validated_hash at the
\* last record produced before the restart (None when there is none), so
\* the records produced before and after restarts form one chain: each
\* has the record produced before it as its only parent.
C35_RestartContinuity ==
    /\ lastValidatedHash = LastProduced
    /\ \A i \in 1..Len(produced) :
          produced[i].parents =
              IF i = 1 THEN <<>> ELSE <<produced[i - 1].id>>
    /\ brRestarts # <<>> =>
          InitTip = IF brRestarts[Len(brRestarts)] = 0 THEN None
                    ELSE produced[brRestarts[Len(brRestarts)]].id

\* Two records, a restart, and a third record chained to the second.
C35_Witness ==
    /\ brRestarts = <<2>>
    /\ Len(produced) = 3
    /\ produced[3].parents = <<produced[2].id>>
    /\ brInitTips = <<produced[2].id>>
    /\ lastValidatedHash = produced[3].id

\* C40: the handler is subscribed to the allowlisted events only, and
\* ARTIFACT_VALIDATED is not one of them; handling an event creates at most
\* one record and one emission, exactly one of each when an allowlisted
\* event is validated without failure; and when the bridge's own
\* ARTIFACT_VALIDATED is handed to the handler, it creates no record and
\* emits nothing, so an emission is never answered by another.
C40_NoFeedback ==
    [][/\ "ARTIFACT_VALIDATED" \notin subscribed'
       /\ subscribed' \subseteq DOMAIN get_validated_events
       /\ IsHandle =>
             /\ Len(produced') <= Len(produced) + 1
             /\ Len(emitted') <= Len(emitted) + 1
             /\ (brRet'.type \in DOMAIN get_validated_events
                    /\ brRet'.fail = "none") =>
                   /\ Len(produced') = Len(produced) + 1
                   /\ brCreated' = brCreated + 1
             /\ brRet'.type = "ARTIFACT_VALIDATED" =>
                   /\ brCreated' = brCreated
                   /\ produced' = produced
                   /\ emitted' = emitted]_vars

\* One creation event was validated, and the emission it made was handed
\* to the handler twice: still one record and one emission.
C40_Witness ==
    /\ brEvents = 3
    /\ brRet.type = "ARTIFACT_VALIDATED"
    /\ Len(produced) = 1 /\ Len(emitted) = 1
    /\ brCreated = 1
    /\ subscribed = DOMAIN get_validated_events

(* ------------------------------------------------------------------ *)
(* NetworkClient.request_witness: unverified answers                    *)
(* ------------------------------------------------------------------ *)

\* C37: request_witness called with verify_key and signable returns no
\* unverified answer as a success: every map it returns that has no
\* error key has verified = True, also when the answer carries no
\* signature or one that is no hex.
C37_Original ==
    (/\ clRet.method = "request_witness"
     /\ Truthy(clRet.key) /\ Truthy(clRet.signable)
     /\ clRet.value.kind = "json"
     /\ clRet.value.body.shape = "object"
     /\ clRet.value.body.error = "") =>
        clRet.value.body.verified

(* ------------------------------------------------------------------ *)
(* WitnessManager: disk-backed against in-memory                        *)
(* ------------------------------------------------------------------ *)

\* What a caller can observe of a manager
SameObservations(tbl, mem) ==
    /\ \A rid \in RecordIds :
        /\ WitnessCount(TRUE, tbl, mem, rid) = WitnessCount(FALSE, tbl, mem, rid)
        /\ GetAttestations(TRUE, tbl, mem, rid) =
               GetAttestations(FALSE, tbl, mem, rid)
    /\ Stats(TRUE, tbl, mem) = Stats(FALSE, tbl, mem)

NanOffered == \E i \in DOMAIN eqOffered : eqOffered[i].timestamp = NanTimestamp

====
